---- MODULE Spec2Model ----
(***************************************************************************)
(* A model of the dgo Array collection (internal/array.go): arrays are     *)
(* heap objects {slice, typ, frozen}; a slice is a window (st, off, len)   *)
(* onto a backing array, exactly as a Go slice is, so that append, copy    *)
(* and re-slicing alias storage the way the Go code does.                  *)
(***************************************************************************)
EXTENDS Integers, Sequences, FiniteSets, TLC

VARIABLES arr, store, res, derived, held, arg, calls, lim, running, nodes

vars == <<arr, store, res, derived, held, arg, calls, lim, running, nodes>>

\* ------------------------------------------------------------------ bounds
\* Spec: the number of calls made, starting from the empty heap
MaxCalls == 3
\* SpecTyped: the number of calls made
MaxTypedCalls == 3
\* SpecNested: the number of calls made after the heap is built
MaxNestedCalls == 2
\* the width standing in for the 64 bits of a Go int
IntBits == 6

MaxTypeSteps == 3

\* math.MaxInt64, at the width IntBits stands in for 64
MaxInt64 == 2^(IntBits - 1) - 1

\* ------------------------------------------------------------------ values
\* A dgo.Value is a record [k, v]: integers, strings, the Nil value, a
\* pointer to an array on the heap, and Go's nil interface (an unset slot).
IntV(n) == [k |-> "int", v |-> n]
StrV(n) == [k |-> "str", v |-> n]
RefV(a) == [k |-> "ref", v |-> a]
Nil == [k |-> "nil", v |-> 0]
GoNil == [k |-> "gonil", v |-> 0]

\* ------------------------------------------------------------------ types
NoType == [k |-> "notype"]
DefaultAnyType == [k |-> "any"]
IntegerType == [k |-> "integer"]
StringType == [k |-> "string"]
DefaultArrayType == [k |-> "array"]
SizedArrayType(e, mn, mx) == [k |-> "sized", elementType |-> e, min |-> mn, max |-> mx]
TupleOf(ts, var) == [k |-> "tuple", types |-> ts, variadic |-> var]
DefaultTupleType == TupleOf(<<>>, FALSE)
ExactArrayType(a) == [k |-> "exact", id |-> a]
AllOfType(ts) == [k |-> "allOf", types |-> ts]
\* the type of an integer or string value: the value itself, as a type
ExactValueType(x) == [k |-> "exactv", val |-> x]
\* (*allOfValueType)(a): all-of over the types of the elements of array a
AllOfValueType(a) == [k |-> "allOfValue", id |-> a]
\* &metaType{tp}; a nil operand is NoType
MetaType(tp) == [k |-> "meta", tp |-> tp]

TypeKinds ==
    {"any", "integer", "string", "array", "sized", "tuple", "exact",
     "allOf", "exactv", "allOfValue", "meta"}

\* value.(dgo.Type)
IsType(x) == x.k \in TypeKinds

IsArrayType(t) == t.k \in {"array", "sized", "tuple", "exact"}

\* newArrayType keeping the bounds in the order given
newArrayTypeUnordered(elementType, min0, max0) ==
    LET mn == IF min0 < 0 THEN 0 ELSE min0
        mx == IF max0 < 0 THEN 0 ELSE max0
        et == IF elementType = NoType THEN DefaultAnyType ELSE elementType
    IN  IF mn = 0 /\ mx = MaxInt64 /\ et = DefaultAnyType
        THEN DefaultArrayType
        ELSE SizedArrayType(et, mn, mx)

newArrayType(elementType, min0, max0) ==
    LET min1 == IF min0 < 0 THEN 0 ELSE min0
        max1 == IF max0 < 0 THEN 0 ELSE max0
        mn == IF max1 < min1 THEN max1 ELSE min1
        mx == IF max1 < min1 THEN min1 ELSE max1
        et == IF elementType = NoType THEN DefaultAnyType ELSE elementType
    IN  IF mn = 0 /\ mx = MaxInt64 /\ et = DefaultAnyType
        THEN DefaultArrayType
        ELSE SizedArrayType(et, mn, mx)

newTupleType(types, variadic) ==
    IF Len(types) = 0 THEN DefaultTupleType ELSE TupleOf(types, variadic)

\* what a type factory gives: a type, or a panic
Made(t) == [err |-> "ok", t |-> t]

Panics(e) == [err |-> e, t |-> NoType]

IsInteger(x) == x.k = "int"

arrayTypeOne(args) ==
    IF IsType(args[1]) THEN Made(newArrayType(args[1], 0, MaxInt64))
    ELSE IF IsInteger(args[1]) THEN Made(newArrayType(NoType, args[1].v, MaxInt64))
    ELSE Panics("illegal argument")

arrayTypeTwo(args) ==
    IF ~IsInteger(args[2]) THEN Panics("illegal argument")
    ELSE IF IsType(args[1]) THEN Made(newArrayType(args[1], args[2].v, MaxInt64))
    ELSE IF IsInteger(args[1]) THEN Made(newArrayType(NoType, args[1].v, args[2].v))
    ELSE Panics("illegal argument")

arrayTypeThree(args) ==
    IF ~IsType(args[1]) \/ ~IsInteger(args[2]) \/ ~IsInteger(args[3])
    THEN Panics("illegal argument")
    ELSE Made(newArrayType(args[1], args[2].v, args[3].v))

ArrayType(args) ==
    CASE Len(args) = 0 -> Made(DefaultArrayType)
      [] Len(args) = 1 -> arrayTypeOne(args)
      [] Len(args) = 2 -> arrayTypeTwo(args)
      [] Len(args) = 3 -> arrayTypeThree(args)
      [] OTHER -> Panics("illegal number of arguments")

TupleType(types) == Made(newTupleType(types, FALSE))

\* VariadicTupleType accepting any last type
VariadicTupleTypeUnchecked(types) ==
    IF Len(types) = 0 THEN Panics("a variadic tuple must have at least one element")
    ELSE Made(newTupleType(types, TRUE))

VariadicTupleType(types) ==
    IF Len(types) = 0 THEN Panics("a variadic tuple must have at least one element")
    ELSE IF ~IsArrayType(types[Len(types)])
    THEN Panics("the last element of a variadic tuple must be an ArrayType")
    ELSE Made(newTupleType(types, TRUE))

\* ------------------------------------------------------------------ heap
\* H = [arr |-> sequence of array objects, store |-> sequence of backing arrays]
Heap(as, ss) == [arr |-> as, store |-> ss]

Obj(s, o, l, t, f) == [st |-> s, off |-> o, len |-> l, typ |-> t, frozen |-> f]

Cap(H, a) == Len(H.store[H.arr[a].st]) - H.arr[a].off

\* v.slice[i], i counted from 0 as in Go
Get(H, a, i) == H.store[H.arr[a].st][H.arr[a].off + i + 1]

Elems(H, a) == [i \in 1..H.arr[a].len |-> Get(H, a, i - 1)]

\* Go's append growth for a slice of interface values (runtime growslice,
\* below 256 elements): double, or the needed length when that is larger.
growslice(oldCap, needed) == IF needed > 2 * oldCap THEN needed ELSE 2 * oldCap

\* append(s, vals...): writes in place when the capacity suffices (the
\* backing array is shared with every other slice onto it), else copies into
\* a fresh backing array. s = [st, off, len].
GoAppend(ss, s, vals) ==
    LET n == Len(vals)
        cap == Len(ss[s.st]) - s.off
    IN  IF s.len + n <= cap
        THEN [store |-> [ss EXCEPT ![s.st] =
                            [j \in 1..Len(ss[s.st]) |->
                                IF j > s.off + s.len /\ j <= s.off + s.len + n
                                THEN vals[j - s.off - s.len]
                                ELSE ss[s.st][j]]],
              sl |-> [st |-> s.st, off |-> s.off, len |-> s.len + n]]
        ELSE LET nc == growslice(cap, s.len + n)
                 fresh == [j \in 1..nc |->
                             IF j <= s.len THEN ss[s.st][s.off + j]
                             ELSE IF j <= s.len + n THEN vals[j - s.len]
                             ELSE GoNil]
             IN  [store |-> Append(ss, fresh),
                  sl |-> [st |-> Len(ss) + 1, off |-> 0, len |-> s.len + n]]

SliceOf(H, a) == [st |-> H.arr[a].st, off |-> H.arr[a].off, len |-> H.arr[a].len]

\* Backing arrays no array refers to are unreachable; the collector drops
\* them (the remaining ones keep their order).
Rank(U, s) == Cardinality({u \in U : u <= s})

Collect(H) ==
    LET U == {H.arr[a].st : a \in DOMAIN H.arr}
    IN  Heap([a \in DOMAIN H.arr |-> [H.arr[a] EXCEPT !.st = Rank(U, H.arr[a].st)]],
             [r \in 1..Cardinality(U) |-> H.store[CHOOSE s \in U : Rank(U, s) = r]])

\* ------------------------------------------------------------------ equality
\* Deep equality with the seen stack of pairs: a pair met again counts as equal.
RECURSIVE equals(_, _, _, _)
RECURSIVE typeEquals(_, _, _, _)
sliceEquals(H, seen, xs, ys) ==
    /\ Len(xs) = Len(ys)
    /\ \A i \in 1..Len(xs) : equals(H, seen, xs[i], ys[i])

equals(H, seen, x, y) ==
    IF x = y THEN TRUE
    ELSE IF x.k = "ref" /\ y.k = "ref"
    THEN IF <<x.v, y.v>> \in seen THEN TRUE
         ELSE sliceEquals(H, seen \cup {<<x.v, y.v>>}, Elems(H, x.v), Elems(H, y.v))
    ELSE IF IsType(x) THEN typeEquals(H, seen, x, y)
    ELSE FALSE

\* array.Equals
ArrayEquals(H, a, b) == equals(H, {}, RefV(a), RefV(b))

\* ------------------------------------------------------------------ type functions
RECURSIVE ElementType(_)
RECURSIVE Min(_)
RECURSIVE Max(_)

\* array.Unique on a sequence of types: first occurrences, in order
UniqueTypes(ts) ==
    LET keep == {i \in 1..Len(ts) : \A j \in 1..(i - 1) : ts[j] # ts[i]}
        nth(r) == CHOOSE i \in keep : Cardinality({j \in keep : j <= i}) = r
    IN  [r \in 1..Cardinality(keep) |-> ts[nth(r)]]

tupleElementType(t) ==
    IF Len(t.types) = 0 THEN DefaultAnyType
    ELSE IF Len(t.types) = 1
    THEN IF t.variadic THEN ElementType(t.types[1]) ELSE t.types[1]
    ELSE LET lp == Len(t.types)
             ea == IF t.variadic
                   THEN [t.types EXCEPT ![lp] = ElementType(t.types[lp])]
                   ELSE t.types
             u == UniqueTypes(ea)
         IN  IF Len(u) = 1 THEN u[1] ELSE AllOfType(u)

ElementType(t) ==
    CASE t.k = "array" -> DefaultAnyType
      [] t.k = "sized" -> t.elementType
      [] t.k = "tuple" -> tupleElementType(t)

\* the int that a sum of two ints is: the sum modulo the width, as a signed
\* number
WrapInt(x) == ((x + 2^(IntBits - 1)) % 2^IntBits) - 2^(IntBits - 1)

tupleMax(t) ==
    IF t.variadic
    THEN LET n == Len(t.types) - 1
             vn == Max(t.types[n + 1])
         IN  IF vn < MaxInt64 THEN WrapInt(n + vn) ELSE vn
    ELSE Len(t.types)

tupleMin(t) ==
    IF t.variadic
    THEN WrapInt((Len(t.types) - 1) + Min(t.types[Len(t.types)]))
    ELSE Len(t.types)

Max(t) ==
    CASE t.k = "array" -> MaxInt64
      [] t.k = "sized" -> t.max
      [] t.k = "tuple" -> tupleMax(t)

Min(t) ==
    CASE t.k = "array" -> 0
      [] t.k = "sized" -> t.min
      [] t.k = "tuple" -> tupleMin(t)

RECURSIVE Instance(_, _, _)
RECURSIVE Assignable(_, _, _)
RECURSIVE TypeOf(_, _)

allInstance(H, t, vs) ==
    IF t = DefaultAnyType THEN TRUE
    ELSE \A i \in 1..Len(vs) : Instance(H, t, vs[i])

\* a sized type that does not look at its minimum
sizedDeepInstanceNoMin(H, t, value) ==
    IF value.k = "ref"
    THEN LET l == H.arr[value.v].len
         IN  l <= t.max /\ allInstance(H, t.elementType, Elems(H, value.v))
    ELSE FALSE

sizedDeepInstance(H, t, value) ==
    IF value.k = "ref"
    THEN LET l == H.arr[value.v].len
         IN  t.min <= l /\ l <= t.max /\ allInstance(H, t.elementType, Elems(H, value.v))
    ELSE FALSE

\* a tuple that checks the fixed positions only
tupleInstancePrefixOnly(H, t, value) ==
    IF value.k = "ref"
    THEN LET s == Elems(H, value.v)
             n == Len(s)
         IN  IF t.variadic
             THEN IF tupleMin(t) <= n /\ n <= tupleMax(t)
                  THEN \A i \in 1..(Len(t.types) - 1) : Instance(H, t.types[i], s[i])
                  ELSE FALSE
             ELSE IF n = Len(t.types)
                  THEN \A i \in 1..n : Instance(H, t.types[i], s[i])
                  ELSE FALSE
    ELSE FALSE

tupleInstance(H, t, value) ==
    IF value.k = "ref"
    THEN LET s == Elems(H, value.v)
             n == Len(s)
         IN  IF t.variadic
             THEN IF tupleMin(t) <= n /\ n <= tupleMax(t)
                  THEN LET tn == Len(t.types) - 1
                           vt == ElementType(t.types[tn + 1])
                       IN  /\ \A i \in 1..tn : Instance(H, t.types[i], s[i])
                           /\ \A i \in (tn + 1)..n : Instance(H, vt, s[i])
                  ELSE FALSE
             ELSE IF n = Len(t.types)
                  THEN \A i \in 1..n : Instance(H, t.types[i], s[i])
                  ELSE FALSE
    ELSE FALSE

\* exact type comparing lengths only
exactInstanceByLength(H, t, value) ==
    IF value.k = "ref" THEN H.arr[t.id].len = H.arr[value.v].len ELSE FALSE

exactInstance(H, t, value) ==
    IF value.k = "ref" THEN ArrayEquals(H, t.id, value.v) ELSE FALSE

\* metaType.Instance
metaInstance(H, t, v) ==
    IF IsType(v)
    THEN IF t.tp = NoType THEN v.k = "meta" ELSE Assignable(H, t.tp, v)
    ELSE FALSE

Instance(H, t, value) ==
    CASE t.k = "any" -> TRUE
      [] t.k = "integer" -> value.k = "int"
      [] t.k = "string" -> value.k = "str"
      [] t.k = "allOf" -> \A i \in 1..Len(t.types) : Instance(H, t.types[i], value)
      [] t.k = "array" -> value.k = "ref"
      [] t.k = "sized" -> sizedDeepInstance(H, t, value)
      [] t.k = "tuple" -> tupleInstance(H, t, value)
      [] t.k = "exact" -> exactInstance(H, t, value)
      [] t.k = "exactv" -> equals(H, {}, t.val, value)
      [] t.k = "allOfValue" ->
            \A i \in 1..H.arr[t.id].len : Instance(H, TypeOf(H, Elems(H, t.id)[i]), value)
      [] t.k = "meta" -> metaInstance(H, t, value)

\* ------------------------------------------------------------------ type checks on mutation
\* The outcome of a call: "ok", or the panic it ends with.
assertType(H, a, e, pos) ==
    LET t == H.arr[a].typ
        sz == H.arr[a].len
    IN  IF t = NoType THEN "ok"
        ELSE IF pos >= sz /\ sz + 1 > Max(t) THEN "IllegalSize"
        ELSE IF t.k = "tuple"
                  /\ (pos < 0 \/ (pos >= Len(t.types) /\ ~t.variadic))
        THEN "panic"
        ELSE LET et == IF t.k = "tuple"
                       THEN IF t.variadic
                            THEN LET lp == Len(t.types) - 1
                                 IN  IF pos < lp THEN t.types[pos + 1]
                                     ELSE ElementType(t.types[lp + 1])
                            ELSE t.types[pos + 1]
                       ELSE ElementType(t)
             IN  IF Instance(H, et, e) THEN "ok" ELSE "IllegalAssignment"

assertTypes(H, a, values) ==
    LET t == H.arr[a].typ
        addedSize == Len(values)
        sz == H.arr[a].len
    IN  IF t = NoType \/ addedSize = 0 THEN "ok"
        ELSE IF sz + addedSize > Max(t) THEN "IllegalSize"
        ELSE IF \A i \in 1..addedSize : Instance(H, ElementType(t), values[i])
        THEN "ok" ELSE "IllegalAssignment"

\* ------------------------------------------------------------------ operations
\* Every operation maps a heap to an outcome: the heap after the call, how
\* the call ended ("ok" or the panic), the returned value and, for the calls
\* that return a bool, that flag.
Out(H, e, r, f) == [arr |-> H.arr, store |-> H.store, err |-> e, ret |-> r, flag |-> f]

frozenArray == "frozen"

WithSlice(o, sl) == [o EXCEPT !.st = sl.st, !.off = sl.off, !.len = sl.len]

\* &array{slice: elems, typ: t, frozen: f} over a fresh backing array
NewArray(H, elems, t, f) ==
    Heap(Append(H.arr, Obj(Len(H.store) + 1, 0, Len(elems), t, f)),
         Append(H.store, elems))

\* &array{slice: sl, typ: t, frozen: f} over an existing backing array
NewArrayOn(H, ss, sl, t, f) ==
    Heap(Append(H.arr, Obj(sl.st, sl.off, sl.len, t, f)), ss)

Add(H, v, val) ==
    IF H.arr[v].frozen THEN Out(H, frozenArray, GoNil, FALSE)
    ELSE LET e == assertType(H, v, val, H.arr[v].len)
         IN  IF e # "ok" THEN Out(H, e, GoNil, FALSE)
             ELSE LET r == GoAppend(H.store, SliceOf(H, v), <<val>>)
                  IN  Out(Heap([H.arr EXCEPT ![v] = WithSlice(@, r.sl)], r.store),
                          "ok", GoNil, FALSE)

\* AddAll with an array as the iterable
AddAll(H, v, values) ==
    IF H.arr[v].frozen THEN Out(H, frozenArray, GoNil, FALSE)
    ELSE LET e == assertTypes(H, v, Elems(H, values))
         IN  IF e # "ok" THEN Out(H, e, GoNil, FALSE)
             ELSE LET r == GoAppend(H.store, SliceOf(H, v), Elems(H, values))
                  IN  Out(Heap([H.arr EXCEPT ![v] = WithSlice(@, r.sl)], r.store),
                          "ok", GoNil, FALSE)

AddValues(H, v, values) ==
    IF H.arr[v].frozen THEN Out(H, frozenArray, GoNil, FALSE)
    ELSE LET e == assertTypes(H, v, values)
         IN  IF e # "ok" THEN Out(H, e, GoNil, FALSE)
             ELSE LET r == GoAppend(H.store, SliceOf(H, v), values)
                  IN  Out(Heap([H.arr EXCEPT ![v] = WithSlice(@, r.sl)], r.store),
                          "ok", GoNil, FALSE)

Insert(H, v, pos, val) ==
    IF H.arr[v].frozen THEN Out(H, frozenArray, GoNil, FALSE)
    ELSE LET e == assertType(H, v, val, pos)
         IN  IF e # "ok" THEN Out(H, e, GoNil, FALSE)
             ELSE IF pos < 0 \/ pos > H.arr[v].len THEN Out(H, "panic", GoNil, FALSE)
             ELSE LET tail == <<val>> \o SubSeq(Elems(H, v), pos + 1, H.arr[v].len)
                      head == [st |-> H.arr[v].st, off |-> H.arr[v].off, len |-> pos]
                      r == GoAppend(H.store, head, tail)
                  IN  Out(Heap([H.arr EXCEPT ![v] = WithSlice(@, r.sl)], r.store),
                          "ok", GoNil, FALSE)

Set(H, v, pos, val) ==
    IF H.arr[v].frozen THEN Out(H, frozenArray, GoNil, FALSE)
    ELSE LET e == assertType(H, v, val, pos)
         IN  IF e # "ok" THEN Out(H, e, GoNil, FALSE)
             ELSE IF pos < 0 \/ pos >= H.arr[v].len THEN Out(H, "panic", GoNil, FALSE)
             ELSE Out(Heap(H.arr,
                           [H.store EXCEPT ![H.arr[v].st][H.arr[v].off + pos + 1] = val]),
                      "ok", Get(H, v, pos), FALSE)

\* removePos without the test of the declared minimum
removePosUnchecked(H, v, pos) ==
    LET o == H.arr[v]
    IN  IF pos >= 0 /\ pos < o.len
        THEN LET newLen == o.len - 1
                 a == H.store[o.st]
                 moved == [j \in 1..Len(a) |->
                             IF j > o.off + pos /\ j <= o.off + newLen
                             THEN a[j + 1]
                             ELSE IF j = o.off + newLen + 1 THEN GoNil
                             ELSE a[j]]
             IN  Out(Heap([H.arr EXCEPT ![v].len = newLen],
                          [H.store EXCEPT ![o.st] = moved]),
                     "ok", Get(H, v, pos), TRUE)
        ELSE Out(H, "ok", GoNil, FALSE)

removePos(H, v, pos) ==
    LET o == H.arr[v]
    IN  IF pos >= 0 /\ pos < o.len
        THEN LET newLen == o.len - 1
             IN  IF o.typ # NoType /\ Min(o.typ) > newLen
                 THEN Out(H, "IllegalSize", GoNil, FALSE)
                 ELSE LET a == H.store[o.st]
                          moved == [j \in 1..Len(a) |->
                                      IF j > o.off + pos /\ j <= o.off + newLen
                                      THEN a[j + 1]
                                      ELSE IF j = o.off + newLen + 1 THEN GoNil
                                      ELSE a[j]]
                      IN  Out(Heap([H.arr EXCEPT ![v].len = newLen],
                                   [H.store EXCEPT ![o.st] = moved]),
                              "ok", Get(H, v, pos), TRUE)
        ELSE Out(H, "ok", GoNil, FALSE)

Remove(H, v, pos) ==
    IF H.arr[v].frozen THEN Out(H, frozenArray, GoNil, FALSE)
    ELSE removePos(H, v, pos)

\* the position counted from 0, or -1
IndexOf(H, v, val) ==
    LET hits == {i \in 1..H.arr[v].len : equals(H, {}, val, Get(H, v, i - 1))}
    IN  IF hits = {} THEN -1
        ELSE (CHOOSE i \in hits : \A j \in hits : i <= j) - 1

RemoveValue(H, v, value) ==
    IF H.arr[v].frozen THEN Out(H, frozenArray, GoNil, FALSE)
    ELSE LET r == removePos(H, v, IndexOf(H, v, value))
         IN  [r EXCEPT !.flag = (r.ret # GoNil), !.ret = GoNil]

\* Pop without the frozen test
PopUnguarded(H, v) ==
    LET p == H.arr[v].len - 1
    IN  IF p >= 0
        THEN LET r == removePos(H, v, p)
             IN  IF r.err = "ok" THEN [r EXCEPT !.flag = TRUE] ELSE r
        ELSE Out(H, "ok", GoNil, FALSE)

Pop(H, v) ==
    IF H.arr[v].frozen THEN Out(H, frozenArray, GoNil, FALSE)
    ELSE LET p == H.arr[v].len - 1
         IN  IF p >= 0
             THEN LET r == removePos(H, v, p)
                  IN  IF r.err = "ok" THEN [r EXCEPT !.flag = TRUE] ELSE r
             ELSE Out(H, "ok", GoNil, FALSE)

\* Freeze: in place, element by element, depth first. depth counts the
\* nested calls still allowed: Freeze calls itself only on an array it has
\* not frozen yet, or returns at once, so a chain of calls longer than the
\* heap has arrays, plus one, is a recursion that never returns (the
\* goroutine's stack overflows).
RECURSIVE freeze(_, _, _)
RECURSIVE freezeFrom(_, _, _, _)
freezeFrom(H, v, i, depth) ==
    IF i >= H.arr[v].len THEN [H |-> H, err |-> "ok"]
    ELSE LET e == Get(H, v, i)
         IN  IF e.k = "ref"
             THEN LET r == freeze(H, e.v, depth - 1)
                  IN  IF r.err # "ok" THEN r ELSE freezeFrom(r.H, v, i + 1, depth)
             ELSE freezeFrom(H, v, i + 1, depth)

freeze(H, v, depth) ==
    IF depth = 0 THEN [H |-> H, err |-> "stack overflow"]
    ELSE IF H.arr[v].frozen THEN [H |-> H, err |-> "ok"]
    ELSE freezeFrom(Heap([H.arr EXCEPT ![v].frozen = TRUE], H.store), v, 0, depth)

Freeze(H, v) ==
    LET r == freeze(H, v, Len(H.arr) + 1)
    IN  IF r.err # "ok" THEN Out(H, r.err, GoNil, FALSE)
        ELSE Out(r.H, "ok", GoNil, FALSE)

Frozen(H, v) == H.arr[v].frozen

\* Copy: depth counts the nested calls still allowed; a chain of unfrozen
\* arrays longer than the heap has arrays is a cycle, on which the recursion
\* never returns (the goroutine's stack overflows).
RECURSIVE copy(_, _, _, _)
RECURSIVE frozenCopies(_, _, _, _)

\* cp[i] = f.FrozenCopy() for the freezable cp[i], i = from..Len(cp)
frozenCopies(H, cp, from, depth) ==
    IF from > Len(cp) THEN [H |-> H, cp |-> cp, err |-> "ok"]
    ELSE IF cp[from].k = "ref"
    THEN LET r == copy(H, cp[from].v, TRUE, depth)
         IN  IF r.err # "ok" THEN [H |-> H, cp |-> cp, err |-> r.err]
             ELSE frozenCopies(Heap(r.arr, r.store),
                               [cp EXCEPT ![from] = r.ret], from + 1, depth)
    ELSE frozenCopies(H, cp, from + 1, depth)

copy(H, v, frozen, depth) ==
    IF frozen /\ H.arr[v].frozen THEN Out(H, "ok", RefV(v), FALSE)
    ELSE IF depth = 0 THEN Out(H, "stack overflow", GoNil, FALSE)
    ELSE LET r == IF frozen THEN frozenCopies(H, Elems(H, v), 1, depth - 1)
                  ELSE [H |-> H, cp |-> Elems(H, v), err |-> "ok"]
         IN  IF r.err # "ok" THEN Out(H, r.err, GoNil, FALSE)
             ELSE Out(NewArray(r.H, r.cp, H.arr[v].typ, frozen),
                      "ok", RefV(Len(r.H.arr) + 1), FALSE)

\* Copy returning every frozen receiver, whatever flag is asked for
CopySharingFrozen(H, v, frozen) ==
    IF H.arr[v].frozen THEN Out(H, "ok", RefV(v), FALSE)
    ELSE copy(H, v, frozen, Len(H.arr) + 1)

Copy(H, v, frozen) == copy(H, v, frozen, Len(H.arr) + 1)

FrozenCopy(H, v) == Copy(H, v, TRUE)

\* valueSlice(values, frozen)
valueSlice(H, values, frozen) ==
    IF frozen THEN frozenCopies(H, values, 1, Len(H.arr) + 1)
    ELSE [H |-> H, cp |-> values, err |-> "ok"]

With(H, v, val) ==
    LET e == assertType(H, v, val, H.arr[v].len)
    IN  IF e # "ok" THEN Out(H, e, GoNil, FALSE)
        ELSE LET r == GoAppend(H.store, SliceOf(H, v), <<val>>)
             IN  Out(NewArrayOn(H, r.store, r.sl, H.arr[v].typ, H.arr[v].frozen),
                     "ok", RefV(Len(H.arr) + 1), FALSE)

\* WithAll with an array as the iterable. The frozen copy of the argument is
\* unreachable once its elements are added and is dropped from the heap.
WithAll(H, v, values) ==
    IF H.arr[values].len = 0 THEN Out(H, "ok", RefV(v), FALSE)
    ELSE LET c == Copy(H, v, FALSE)
             cid == c.ret.v
             fc == IF H.arr[v].frozen THEN Copy(Heap(c.arr, c.store), values, TRUE)
                   ELSE [c EXCEPT !.ret = RefV(values)]
         IN  IF fc.err # "ok" THEN Out(H, fc.err, GoNil, FALSE)
             ELSE LET G == Heap(fc.arr, fc.store)
                      r == AddAll(G, cid, fc.ret.v)
                  IN  IF r.err # "ok" THEN Out(H, r.err, GoNil, FALSE)
                      ELSE LET keep == IF fc.ret.v = values THEN Len(r.arr)
                                       ELSE Len(r.arr) - 1
                               as == [SubSeq(r.arr, 1, keep) EXCEPT
                                         ![cid].frozen = H.arr[v].frozen]
                           IN  Out(Heap(as, r.store), "ok", RefV(cid), FALSE)

WithValues(H, v, values) ==
    IF Len(values) = 0 THEN Out(H, "ok", RefV(v), FALSE)
    ELSE LET va == valueSlice(H, values, H.arr[v].frozen)
         IN  IF va.err # "ok" THEN Out(H, va.err, GoNil, FALSE)
             ELSE LET e == assertTypes(va.H, v, va.cp)
                  IN  IF e # "ok" THEN Out(H, e, GoNil, FALSE)
                      ELSE LET r == GoAppend(va.H.store, SliceOf(va.H, v), va.cp)
                           IN  Out(NewArrayOn(va.H, r.store, r.sl,
                                              H.arr[v].typ, H.arr[v].frozen),
                                   "ok", RefV(Len(va.H.arr) + 1), FALSE)

\* v.slice[i:j] may reach past len, up to the capacity
Slice(H, v, i, j) ==
    LET o == H.arr[v]
    IN  IF o.frozen /\ i = 0 /\ j = o.len THEN Out(H, "ok", RefV(v), FALSE)
        ELSE IF ~(0 <= i /\ i <= j /\ j <= Cap(H, v)) THEN Out(H, "panic", GoNil, FALSE)
        ELSE IF o.frozen
        THEN Out(NewArrayOn(H, H.store, [st |-> o.st, off |-> o.off + i, len |-> j - i],
                            NoType, TRUE),
                 "ok", RefV(Len(H.arr) + 1), FALSE)
        ELSE Out(NewArray(H, [k \in 1..(j - i) |-> H.store[o.st][o.off + i + k]],
                          NoType, FALSE),
                 "ok", RefV(Len(H.arr) + 1), FALSE)

\* A mapper is the identity or a constant function.
IdMapper == [k |-> "id", v |-> GoNil]
ConstMapper(x) == [k |-> "const", v |-> x]
Apply(mapper, x) == IF mapper.k = "id" THEN x ELSE mapper.v

Map(H, v, mapper) ==
    Out(NewArray(H, [i \in 1..H.arr[v].len |-> Apply(mapper, Get(H, v, i - 1))],
                 NoType, H.arr[v].frozen),
        "ok", RefV(Len(H.arr) + 1), FALSE)

MapTo(H, v, t, mapper) ==
    IF t = NoType THEN Map(H, v, mapper)
    ELSE LET l == H.arr[v].len
             vs == [i \in 1..l |-> Apply(mapper, Get(H, v, i - 1))]
         IN  IF l < Min(t) \/ l > Max(t) THEN Out(H, "IllegalSize", GoNil, FALSE)
             ELSE IF \E i \in 1..l : ~Instance(H, ElementType(t), vs[i])
             THEN Out(H, "IllegalAssignment", GoNil, FALSE)
             ELSE Out(NewArray(H, vs, t, H.arr[v].frozen),
                      "ok", RefV(Len(H.arr) + 1), FALSE)

\* ------------------------------------------------------------------ factories
\* Values(values): a frozen array of frozen copies
Values(H, values) ==
    LET va == valueSlice(H, values, TRUE)
    IN  IF va.err # "ok" THEN Out(H, va.err, GoNil, FALSE)
        ELSE Out(NewArray(va.H, va.cp, NoType, TRUE), "ok", RefV(Len(va.H.arr) + 1), FALSE)

\* WrapSlice(typ, values) / MutableValues(typ, values)
WrapSlice(H, typ, values) ==
    LET G == NewArray(H, values, NoType, FALSE)
        a == Len(G.arr)
    IN  IF typ = NoType THEN Out(G, "ok", RefV(a), FALSE)
        ELSE IF ~Instance(G, typ, RefV(a))
        THEN IF Len(values) < Min(typ) \/ Len(values) > Max(typ)
             THEN Out(H, "IllegalSize", GoNil, FALSE)
             ELSE Out(H, "IllegalAssignment", GoNil, FALSE)
        ELSE Out(Heap([G.arr EXCEPT ![a].typ = typ], G.store), "ok", RefV(a), FALSE)

ArrayWithCapacity(H, capacity, typ) ==
    Out(Heap(Append(H.arr, Obj(Len(H.store) + 1, 0, 0, typ, FALSE)),
             Append(H.store, [j \in 1..capacity |-> GoNil])),
        "ok", RefV(Len(H.arr) + 1), FALSE)

\* ------------------------------------------------------------------ the type of an array
Type(H, v) == IF H.arr[v].typ = NoType THEN ExactArrayType(v) ELSE H.arr[v].typ

\* SetType with nil (NoType), an array type, or a type that is no array type
\* SetType without the instance test
SetTypeUnchecked(H, v, ti) ==
    IF H.arr[v].frozen THEN Out(H, frozenArray, GoNil, FALSE)
    ELSE IF ti # NoType /\ ~IsArrayType(ti) THEN Out(H, "not an ArrayType", GoNil, FALSE)
    ELSE Out(Heap([H.arr EXCEPT ![v].typ = ti], H.store), "ok", GoNil, FALSE)

SetType(H, v, ti) ==
    IF H.arr[v].frozen THEN Out(H, frozenArray, GoNil, FALSE)
    ELSE IF ti # NoType /\ ~IsArrayType(ti) THEN Out(H, "not an ArrayType", GoNil, FALSE)
    ELSE IF ti = NoType \/ Instance(H, ti, RefV(v))
    THEN Out(Heap([H.arr EXCEPT ![v].typ = ti], H.store), "ok", GoNil, FALSE)
    ELSE Out(H, "IllegalAssignment", GoNil, FALSE)

\* ------------------------------------------------------------------ types as values
\* v.Type(): the type of a value; a type is a value too, and its type is a
\* meta type
\* the type of a meta type without the short cut
metaTypeTypeOfSelf(t) == MetaType(t)

metaTypeType(t) == IF t.tp = NoType THEN t ELSE MetaType(NoType)

TypeOf(H, x) ==
    CASE x.k = "ref" -> Type(H, x.v)
      [] x.k \in {"int", "str", "nil"} -> ExactValueType(x)
      [] x.k = "meta" -> metaTypeType(x)
      [] OTHER -> MetaType(x)

\* dgo.TupleType is implemented by tupleType and by exactArrayType
Variadic(t) == IF t.k = "tuple" THEN t.variadic ELSE FALSE

LenOf(H, t) == IF t.k = "exact" THEN H.arr[t.id].len ELSE Len(t.types)

\* Element(index), index counted from 0
Element(H, t, index) ==
    IF t.k = "exact" THEN TypeOf(H, Elems(H, t.id)[index + 1]) ELSE t.types[index + 1]

exactElementType(H, t) ==
    IF H.arr[t.id].len = 0 THEN DefaultAnyType
    ELSE IF H.arr[t.id].len = 1 THEN TypeOf(H, Elems(H, t.id)[1])
    ELSE AllOfValueType(t.id)

ElementTypeOf(H, t) == IF t.k = "exact" THEN exactElementType(H, t) ELSE ElementType(t)

MinOf(H, t) == IF t.k = "exact" THEN H.arr[t.id].len ELSE Min(t)

MaxOf(H, t) == IF t.k = "exact" THEN H.arr[t.id].len ELSE Max(t)

\* t.Unbounded()
RECURSIVE Unbounded(_)
Unbounded(t) ==
    CASE t.k = "array" -> TRUE
      [] t.k = "sized" -> t.min = 0 /\ t.max = MaxInt64
      [] t.k = "exact" -> FALSE
      [] t.k = "tuple" -> t.variadic /\ Unbounded(t.types[Len(t.types)])

\* ------------------------------------------------------------------ equality of types
metaEquals(H, t, v) ==
    IF v.k = "meta"
    THEN IF t.tp = NoType THEN v.tp = NoType ELSE equals(H, {}, t.tp, v.tp)
    ELSE FALSE

tupleEquals(H, seen, t, other) ==
    IF other.k \in {"tuple", "exact"}
    THEN LET n == LenOf(H, t)
         IN  IF Variadic(t) = Variadic(other) /\ n = LenOf(H, other)
             THEN \A i \in 0..(n - 1) :
                     equals(H, seen, Element(H, t, i), Element(H, other, i))
             ELSE FALSE
    ELSE FALSE

tupleDeepEqual(H, seen, t, other) ==
    IF other.k = "tuple"
    THEN t.variadic = other.variadic /\ sliceEquals(H, seen, t.types, other.types)
    ELSE tupleEquals(H, seen, t, other)

sizedDeepEqual(H, seen, t, other) ==
    IF other.k = "sized"
    THEN /\ t.min = other.min
         /\ t.max = other.max
         /\ equals(H, seen, t.elementType, other.elementType)
    ELSE FALSE

\* exact types compared by the identity of the array behind them
exactEqualsSameArray(H, t, other) ==
    IF other.k = "exact" THEN t.id = other.id ELSE FALSE

exactEquals(H, t, other) ==
    IF other.k = "exact" THEN ArrayEquals(H, t.id, other.id) ELSE FALSE

\* the values with a deepEqual method: equals hands the other value to the
\* receiver's deepEqual only when it has one too
ImplementsDeepEqual(x) == x.k \in {"ref", "sized", "tuple", "allOf"}

\* t.Equals(other) for a type t that is not other itself
typeEquals(H, seen, t, other) ==
    CASE t.k = "sized" -> ImplementsDeepEqual(other) /\ sizedDeepEqual(H, seen, t, other)
      [] t.k = "tuple" -> ImplementsDeepEqual(other) /\ tupleDeepEqual(H, seen, t, other)
      [] t.k = "exact" -> exactEquals(H, t, other)
      [] t.k = "meta" -> metaEquals(H, t, other)
      [] t.k = "allOf" -> other.k = "allOf" /\ sliceEquals(H, seen, t.types, other.types)
      [] t.k = "allOfValue" -> other.k = "allOfValue" /\ ArrayEquals(H, t.id, other.id)
      [] t.k = "exactv" -> other.k = "exactv" /\ equals(H, seen, t.val, other.val)
      [] OTHER -> FALSE

\* x.Equals(y)
Equals(H, x, y) == equals(H, {}, x, y)

\* ------------------------------------------------------------------ assignability
\* CheckAssignableTo: the other type answers when it is a composite type
CheckAssignableTo(H, other, t) ==
    CASE other.k = "allOf" ->
            \E i \in 1..Len(other.types) : Assignable(H, t, other.types[i])
      [] other.k = "allOfValue" ->
            \E i \in 1..H.arr[other.id].len :
                Assignable(H, t, TypeOf(H, Elems(H, other.id)[i]))
      [] OTHER -> FALSE

defaultAssignable(H, t, other) ==
    IF other.k \in {"array", "tuple", "exact", "sized"} THEN TRUE
    ELSE CheckAssignableTo(H, other, t)

\* a sized type that does not look at the other type's maximum
sizedDeepAssignableNoMax(H, t, other) ==
    IF other.k = "array" THEN FALSE
    ELSE IF IsArrayType(other)
    THEN /\ t.min <= MinOf(H, other)
         /\ Assignable(H, t.elementType, ElementTypeOf(H, other))
    ELSE CheckAssignableTo(H, other, t)

sizedDeepAssignable(H, t, other) ==
    IF other.k = "array" THEN FALSE
    ELSE IF IsArrayType(other)
    THEN /\ t.min <= MinOf(H, other)
         /\ MaxOf(H, other) <= t.max
         /\ Assignable(H, t.elementType, ElementTypeOf(H, other))
    ELSE CheckAssignableTo(H, other, t)

assignableToAll(H, t, vs) ==
    \A i \in 1..Len(vs) : Assignable(H, TypeOf(H, vs[i]), t)

tupleAssignableTuple(H, t, ot) ==
    IF MinOf(H, t) > MinOf(H, ot) \/ MaxOf(H, ot) > MaxOf(H, t) THEN FALSE
    ELSE LET tn == IF Variadic(t) THEN LenOf(H, t) - 1 ELSE LenOf(H, t)
             tv == IF Variadic(t) THEN ElementTypeOf(H, Element(H, t, tn)) ELSE NoType
             on == IF Variadic(ot) THEN LenOf(H, ot) - 1 ELSE LenOf(H, ot)
             ov == IF Variadic(ot) THEN ElementTypeOf(H, Element(H, ot, on)) ELSE NoType
             n == IF tn < on THEN on ELSE tn
         IN  \A i \in 0..(n - 1) :
                LET te == IF i < tn THEN Element(H, t, i) ELSE tv
                    oe == IF i < on THEN Element(H, ot, i) ELSE ov
                IN  te # NoType /\ oe # NoType /\ Assignable(H, te, oe)

\* tupleAssignableArray looking at the fixed positions only
tupleAssignableArrayFixedOnly(H, t, ot) ==
    IF MinOf(H, t) <= ot.min /\ ot.max <= MaxOf(H, t)
    THEN LET et == ot.elementType
             n == IF Variadic(t) THEN LenOf(H, t) - 1 ELSE LenOf(H, t)
         IN  \A i \in 0..(n - 1) : Assignable(H, Element(H, t, i), et)
    ELSE FALSE

tupleAssignableArray(H, t, ot) ==
    IF MinOf(H, t) <= ot.min /\ ot.max <= MaxOf(H, t)
    THEN LET et == ot.elementType
             n == IF Variadic(t) THEN LenOf(H, t) - 1 ELSE LenOf(H, t)
         IN  /\ \A i \in 0..(n - 1) : Assignable(H, Element(H, t, i), et)
             /\ (~Variadic(t) \/ Assignable(H, ElementTypeOf(H, Element(H, t, n)), et))
    ELSE FALSE

tupleAssignable(H, t, other) ==
    CASE other.k = "array" -> FALSE
      [] other.k = "exact" -> Instance(H, t, RefV(other.id))
      [] other.k = "tuple" -> tupleAssignableTuple(H, t, other)
      [] other.k = "sized" -> tupleAssignableArray(H, t, other)
      [] OTHER -> CheckAssignableTo(H, other, t)

exactDeepAssignable(H, t, other) ==
    LET es == Elems(H, t.id)
    IN  CASE other.k = "array" -> FALSE
          [] other.k = "sized" ->
                /\ other.min = Len(es)
                /\ other.max = Len(es)
                /\ assignableToAll(H, other.elementType, es)
          [] other.k = "exact" -> sliceEquals(H, {}, es, Elems(H, other.id))
          [] other.k = "tuple" -> tupleAssignableTuple(H, t, other)
          [] OTHER -> CheckAssignableTo(H, other, t)

\* a meta type assignable from every meta type
metaAssignableFromAnyMeta(H, t, ot) ==
    IF ot.k = "meta" THEN TRUE ELSE CheckAssignableTo(H, ot, t)

metaAssignable(H, t, ot) ==
    IF ot.k = "meta"
    THEN IF t.tp = NoType THEN ot.tp = NoType ELSE Equals(H, t.tp, ot.tp)
    ELSE CheckAssignableTo(H, ot, t)

\* t.Assignable(other)
Assignable(H, t, other) ==
    CASE t.k = "any" -> TRUE
      [] t.k = "integer" ->
            \/ other.k = "integer"
            \/ (other.k = "exactv" /\ other.val.k = "int")
            \/ CheckAssignableTo(H, other, t)
      [] t.k = "string" ->
            \/ other.k = "string"
            \/ (other.k = "exactv" /\ other.val.k = "str")
            \/ CheckAssignableTo(H, other, t)
      [] t.k = "exactv" ->
            \/ (other.k = "exactv" /\ equals(H, {}, t.val, other.val))
            \/ CheckAssignableTo(H, other, t)
      [] t.k = "allOf" -> \A i \in 1..Len(t.types) : Assignable(H, t.types[i], other)
      [] t.k = "allOfValue" ->
            \A i \in 1..H.arr[t.id].len :
                Assignable(H, TypeOf(H, Elems(H, t.id)[i]), other)
      [] t.k = "array" -> defaultAssignable(H, t, other)
      [] t.k = "sized" -> sizedDeepAssignable(H, t, other)
      [] t.k = "tuple" -> tupleAssignable(H, t, other)
      [] t.k = "exact" -> exactDeepAssignable(H, t, other)
      [] t.k = "meta" -> metaAssignable(H, t, other)

\* ------------------------------------------------------------------ hash codes
\* A hash code is a machine integer; the arithmetic wraps around.
HashMod == 2^(3 * IntBits)

TiAny == 1
TiMeta == 2
TiInteger == 5
TiString == 11
TiArray == 13
TiArrayExact == 14

Hashed(h) == [err |-> "ok", h |-> h % HashMod]

NilDereference == [err |-> "nil pointer dereference", h |-> 0]

\* h*m + the hash code c, which may have failed
HashStep(h, m, c) == IF c.err = "ok" THEN Hashed(h * m + c.h) ELSE c

RECURSIVE HashCode(_, _, _)

\* h = h*31 + deepHashCode(seen, xs[i]) for i = from..Len(xs)
RECURSIVE hashFrom(_, _, _, _, _)
hashFrom(H, seen, h, xs, from) ==
    IF from > Len(xs) \/ h.err # "ok" THEN h
    ELSE hashFrom(H, seen, HashStep(h.h, 31, HashCode(H, seen, xs[from])), xs, from + 1)

arrayHashCode(H, seen, a) ==
    IF a \in seen THEN Hashed(0)
    ELSE hashFrom(H, seen \cup {a}, Hashed(1), Elems(H, a), 1)

sizedDeepHashCode(H, seen, t) ==
    LET h0 == TiArray
        h1 == IF t.min > 0 THEN (h0 * 31 + t.min) % HashMod ELSE h0
        h2 == IF t.max < MaxInt64 THEN (h1 * 31 + t.max) % HashMod ELSE h1
    IN  IF t.elementType # DefaultAnyType
        THEN HashStep(h2, 31, HashCode(H, seen, t.elementType))
        ELSE Hashed(h2)

ElementTypes(H, t) == [i \in 1..LenOf(H, t) |-> Element(H, t, i - 1)]

tupleHashCode(H, seen, t) ==
    hashFrom(H, seen, Hashed(IF Variadic(t) THEN 7 ELSE 1), ElementTypes(H, t), 1)

exactHashCode(H, seen, t) ==
    LET c == arrayHashCode(H, seen, t.id)
    IN  IF c.err = "ok" THEN Hashed(c.h * 7 + TiArrayExact) ELSE c

metaHashCode(H, seen, t) ==
    IF t.tp = NoType THEN NilDereference
    ELSE HashStep(TiMeta, 1321, HashCode(H, seen, t.tp))

primitiveHashCode(x) ==
    CASE x.k = "int" -> Hashed(x.v)
      [] x.k = "str" -> Hashed(31 * TiString + x.v)
      [] x.k = "nil" -> Hashed(131)

\* x.HashCode()
HashCode(H, seen, x) ==
    CASE x.k = "ref" -> arrayHashCode(H, seen, x.v)
      [] x.k \in {"int", "str", "nil"} -> primitiveHashCode(x)
      [] x.k = "any" -> Hashed(TiAny)
      [] x.k = "integer" -> Hashed(TiInteger)
      [] x.k = "string" -> Hashed(TiString)
      [] x.k = "exactv" -> HashStep(TiAny, 31, primitiveHashCode(x.val))
      [] x.k = "allOf" -> hashFrom(H, seen, Hashed(3), x.types, 1)
      [] x.k = "allOfValue" -> HashStep(3, 31, arrayHashCode(H, seen, x.id))
      [] x.k = "array" -> Hashed(TiArray)
      [] x.k = "sized" -> sizedDeepHashCode(H, seen, x)
      [] x.k = "tuple" -> tupleHashCode(H, seen, x)
      [] x.k = "exact" -> exactHashCode(H, seen, x)
      [] x.k = "meta" -> metaHashCode(H, seen, x)

\* ------------------------------------------------------------------ arrays derived from an array
\* Select and Reject with a predicate that accepts the values of some kinds
Accepting(kinds) == [k |-> "predicate", accepts |-> kinds]

Holds(predicate, e) == e.k \in predicate.accepts

\* the elements of xs, in order, that pass the test
RECURSIVE appendWhere(_, _, _)
appendWhere(xs, predicate, wanted) ==
    IF xs = <<>> THEN <<>>
    ELSE (IF Holds(predicate, Head(xs)) = wanted THEN <<Head(xs)>> ELSE <<>>)
         \o appendWhere(Tail(xs), predicate, wanted)

Reject(H, v, predicate) ==
    Out(NewArray(H, appendWhere(Elems(H, v), predicate, FALSE),
                 H.arr[v].typ, H.arr[v].frozen),
        "ok", RefV(Len(H.arr) + 1), FALSE)

Select(H, v, predicate) ==
    Out(NewArray(H, appendWhere(Elems(H, v), predicate, TRUE),
                 H.arr[v].typ, H.arr[v].frozen),
        "ok", RefV(Len(H.arr) + 1), FALSE)

\* The loop of Unique: u holds the keys kept so far with their hash codes.
\* A key is looked for in the chain of its own hash code only.
RECURSIVE uniqueFrom(_, _, _, _)
uniqueFrom(H, a, i, u) ==
    IF i > Len(a) THEN [err |-> "ok", u |-> u]
    ELSE LET k == a[i]
             c == HashCode(H, {}, k)
         IN  IF c.err # "ok" THEN [err |-> c.err, u |-> u]
             ELSE IF \E j \in 1..Len(u) : u[j].h = c.h /\ Equals(H, k, u[j].key)
             THEN uniqueFrom(H, a, i + 1, u)
             ELSE uniqueFrom(H, a, i + 1, Append(u, [key |-> k, h |-> c.h]))

\* The result is u[:ui] of a slice of top elements: it has spare capacity.
Unique(H, v) ==
    LET a == Elems(H, v)
        top == Len(a)
        r == uniqueFrom(H, a, 1, <<>>)
        ui == Len(r.u)
    IN  IF top < 2 THEN Out(H, "ok", RefV(v), FALSE)
        ELSE IF r.err # "ok" THEN Out(H, r.err, GoNil, FALSE)
        ELSE IF ui = top THEN Out(H, "ok", RefV(v), FALSE)
        ELSE Out(Heap(Append(H.arr, Obj(Len(H.store) + 1, 0, ui,
                                        H.arr[v].typ, H.arr[v].frozen)),
                      Append(H.store, [i \in 1..top |->
                                          IF i <= ui THEN r.u[i].key ELSE GoNil])),
                 "ok", RefV(Len(H.arr) + 1), FALSE)

\* value.(dgo.Comparable): integers, strings and arrays
IsComparable(x) == x.k \in {"int", "str", "ref"}

Compared(c, ok) == [c |-> c, ok |-> ok]

Sign(n) == IF n < 0 THEN 0 - 1 ELSE IF n > 0 THEN 1 ELSE 0

RECURSIVE compare(_, _, _)

\* the loop of deepCompare over the positions i..max, r the result so far
RECURSIVE compareFrom(_, _, _, _, _, _)
compareFrom(H, a, b, i, max, r) ==
    IF i > max THEN Compared(r, TRUE)
    ELSE IF ~IsComparable(a[i]) THEN Compared(0, FALSE)
    ELSE LET c == compare(H, a[i], b[i])
         IN  IF ~c.ok THEN Compared(0, FALSE)
             ELSE IF c.c # 0 THEN c
             ELSE compareFrom(H, a, b, i + 1, max, r)

deepCompare(H, v, other) ==
    IF other.k # "ref" THEN Compared(0, FALSE)
    ELSE LET a == Elems(H, v)
             b == Elems(H, other.v)
             top == Len(a)
             max == IF top < Len(b) THEN top ELSE Len(b)
             r == IF top < Len(b) THEN 0 - 1 ELSE IF top > Len(b) THEN 1 ELSE 0
         IN  compareFrom(H, a, b, 1, max, r)

\* compare(seen, a, b): integers with integers and strings with strings,
\* by value; arrays by deepCompare; nothing else compares
compare(H, a, b) ==
    CASE a.k = "int" /\ b.k = "int" -> Compared(Sign(a.v - b.v), TRUE)
      [] a.k = "str" /\ b.k = "str" -> Compared(Sign(a.v - b.v), TRUE)
      [] a.k = "ref" -> deepCompare(H, a.v, b)
      [] OTHER -> Compared(0, FALSE)

CompareTo(H, a, other) == compare(H, a, other)

TiIntegerExact == 6
TiStringExact == 12
TiTuple == 15
TiNil == 0

\* t.TypeIdentifier()
TypeIdentifier(t) ==
    CASE t.k = "any" -> TiAny
      [] t.k = "meta" -> TiMeta
      [] t.k = "integer" -> TiInteger
      [] t.k = "string" -> TiString
      [] t.k \in {"array", "sized"} -> TiArray
      [] t.k = "exact" -> TiArrayExact
      [] t.k = "tuple" -> TiTuple
      [] t.k = "exactv" /\ t.val.k = "int" -> TiIntegerExact
      [] t.k = "exactv" /\ t.val.k = "str" -> TiStringExact
      [] OTHER -> TiNil

\* the less function Sort hands to sort.SliceStable
sortLess(H, a, b) ==
    LET c == CompareTo(H, a, b)
    IN  IF IsComparable(a) /\ c.ok THEN c.c < 0
        ELSE TypeIdentifier(TypeOf(H, a)) < TypeIdentifier(TypeOf(H, b))

\* sort.SliceStable on fewer than 20 elements is an insertion sort:
\* for i = 1..n-1, element i sinks while it is less than the one before it.
RECURSIVE sink(_, _, _)
sink(H, s, j) ==
    IF j > 1 /\ sortLess(H, s[j], s[j - 1])
    THEN sink(H, [s EXCEPT ![j] = s[j - 1], ![j - 1] = s[j]], j - 1)
    ELSE s

RECURSIVE SliceStable(_, _, _)
SliceStable(H, s, i) ==
    IF i > Len(s) THEN s ELSE SliceStable(H, sink(H, s, i), i + 1)

\* Sort that sorts the receiver's own slice
SortInPlace(H, v) ==
    IF H.arr[v].len < 2 THEN Out(H, "ok", RefV(v), FALSE)
    ELSE LET o == H.arr[v]
             sorted == SliceStable(H, Elems(H, v), 2)
             a == H.store[o.st]
         IN  Out(Heap(Append(H.arr, o),
                      [H.store EXCEPT ![o.st] =
                          [j \in 1..Len(a) |->
                              IF j > o.off /\ j <= o.off + o.len
                              THEN sorted[j - o.off] ELSE a[j]]]),
                 "ok", RefV(Len(H.arr) + 1), FALSE)

Sort(H, v) ==
    IF H.arr[v].len < 2 THEN Out(H, "ok", RefV(v), FALSE)
    ELSE Out(NewArray(H, SliceStable(H, Elems(H, v), 2),
                      H.arr[v].typ, H.arr[v].frozen),
             "ok", RefV(Len(H.arr) + 1), FALSE)

\* A map: its entries in iteration order (first, next, ... last), its len
\* field and its frozen flag.
MapOf(entries, n, f) == [k |-> "map", entries |-> entries, len |-> n, frozen |-> f]

\* the loop of ToMap from position i (counted from 1) on
RECURSIVE toMapFrom(_, _, _, _)
toMapFrom(H, ms, i, entries) ==
    IF i > Len(ms) THEN [err |-> "ok", entries |-> entries]
    ELSE LET mk == ms[i]
             mv == IF i + 1 <= Len(ms) THEN ms[i + 1] ELSE Nil
             c == HashCode(H, {}, mk)
         IN  IF c.err # "ok" THEN [err |-> c.err, entries |-> entries]
             ELSE toMapFrom(H, ms, i + 2, Append(entries, [key |-> mk, value |-> mv]))

ToMap(H, v) ==
    LET ms == Elems(H, v)
        top == Len(ms)
        ts == (top \div 2) + (IF top % 2 # 0 THEN 1 ELSE 0)
        r == toMapFrom(H, ms, 1, <<>>)
    IN  IF r.err # "ok" THEN Out(H, r.err, GoNil, FALSE)
        ELSE Out(H, "ok", MapOf(r.entries, ts, H.arr[v].frozen), FALSE)

\* ------------------------------------------------------------------ arrays compared by their values
\* the loop of ContainsAll from position i (counted from 1) on: a[i] is
\* looked up in vs, the copy of the other array's elements, and the element
\* found is set to nil
RECURSIVE containsAllFrom(_, _, _, _)
containsAllFrom(H, a, vs, i) ==
    IF i > Len(vs) THEN TRUE
    ELSE LET found == {j \in 1..Len(vs) : vs[j] # GoNil /\ equals(H, {}, vs[j], a[i])}
         IN  IF found = {} THEN FALSE
             ELSE containsAllFrom(H, a,
                                  [vs EXCEPT ![CHOOSE j \in found : \A k \in found : j <= k] = GoNil],
                                  i + 1)

ContainsAll(H, v, other) ==
    LET a == Elems(H, v)
    IN  IF Len(a) < H.arr[other].len THEN FALSE
        ELSE IF Len(a) = 0 THEN TRUE
        ELSE containsAllFrom(H, a, Elems(H, other), 1)

SameValues(H, v, other) == H.arr[v].len = H.arr[other].len /\ ContainsAll(H, v, other)

\* ------------------------------------------------------------------ maps made of hash nodes
\* A hash node: the entry (key, value), the next node of its bucket
\* (hashNext) and its neighbours in insertion order (prev, next).  A link is
\* GoNil or the node it points to.  N is the sequence of the nodes there are.
EntryV(n) == [k |-> "entry", v |-> n]

hashNode(key, value) ==
    [key |-> key, value |-> value, hashNext |-> GoNil, prev |-> GoNil, next |-> GoNil]

\* A hashMap: the table of buckets, the first and the last node in insertion
\* order, len and frozen.
hashMap(table, len, frozen) ==
    [k |-> "map", table |-> table, len |-> len, frozen |-> frozen,
     first |-> GoNil, last |-> GoNil]

\* the smallest power of two that is not less than capacity
RECURSIVE tableSizeFrom(_, _)
tableSizeFrom(capacity, size) ==
    IF size >= capacity THEN size ELSE tableSizeFrom(capacity, 2 * size)

tableSizeFor(capacity) == tableSizeFrom(capacity, 1)

\* make([]*hashNode, size)
makeTable(size) == [b \in 0..(size - 1) |-> GoNil]

\* hl & hash(h), for a table of hl + 1 buckets
bucket(m, h) == h % Cardinality(DOMAIN m.table)

\* node nd becomes the head of bucket hk and the last node of map m
enlist(N, m, nd, hk) ==
    LET N1 == [N EXCEPT ![nd].hashNext = m.table[hk], ![nd].prev = m.last]
        N2 == IF m.first = GoNil THEN N1 ELSE [N1 EXCEPT ![m.last.v].next = EntryV(nd)]
    IN  [N |-> N2,
         m |-> [m EXCEPT !.first = IF m.first = GoNil THEN EntryV(nd) ELSE m.first,
                         !.last = EntryV(nd),
                         !.table[hk] = EntryV(nd)]]

\* hashMap.Put of a key the map does not hold, without rehash
putNew(N, m, key, value) ==
    LET r == enlist(Append(N, hashNode(key, value)), m, Len(N) + 1,
                    bucket(m, primitiveHashCode(key).h))
    IN  [N |-> r.N, m |-> [r.m EXCEPT !.len = m.len + 1]]

\* what ToMapFromEntries gives: the nodes as it leaves them, the map (GoNil
\* when there is none) and ok
Mapped(N, err, m, ok) == [N |-> N, err |-> err, ret |-> m, flag |-> ok]

\* the loop of ToMapFromEntries from position i (counted from 1) on
RECURSIVE toMapFromEntriesFrom(_, _, _, _, _)
toMapFromEntriesFrom(H, N, ms, i, m) ==
    IF i > Len(ms) THEN Mapped(N, "ok", m, TRUE)
    ELSE LET e == ms[i]
             isNode == e.k = "entry"
             isPair == e.k = "ref" /\ H.arr[IF e.k = "ref" THEN e.v ELSE 1].len = 2
         IN  IF ~isNode /\ ~isPair THEN Mapped(N, "ok", GoNil, FALSE)
             ELSE LET fresh == IF isNode THEN [N[e.v] EXCEPT !.next = GoNil]
                               ELSE hashNode(Get(H, e.v, 0), Get(H, e.v, 1))
                      copied == isPair \/ N[e.v].hashNext # GoNil
                      N0 == IF copied THEN Append(N, fresh) ELSE N
                      nd == IF copied THEN Len(N) + 1 ELSE e.v
                      c == HashCode(H, {}, N0[nd].key)
                  IN  IF c.err # "ok" THEN Mapped(N0, c.err, GoNil, FALSE)
                      ELSE LET r == enlist(N0, m, nd, bucket(m, c.h))
                           IN  toMapFromEntriesFrom(H, r.N, ms, i + 1, r.m)

ToMapFromEntries(H, N, v) ==
    LET ms == Elems(H, v)
        top == Len(ms)
    IN  toMapFromEntriesFrom(H, N, ms, 1,
                             hashMap(makeTable(tableSizeFor(top)), top, H.arr[v].frozen))

\* ------------------------------------------------------------------ the state machine
\* arr, store: the heap.  res: the last call (operation, receiver, how it
\* ended, what it returned).  derived[a]: the call that created array a.
\* held: the last value a Type() call returned, kept by the caller.
\* arg: the value the caller passes to a call on held.
\* calls: the number of calls made.  lim: the number of calls the run is
\* followed for.  running[g]: the call goroutine g is in, when calls run
\* concurrently.  nodes: the entries of the maps (hash nodes) there are.
NoGoroutines == <<>>

NoNodes == <<>>

Cur == Heap(arr, store)

Arrays == 1..Len(arr)

Refs == {RefV(a) : a \in Arrays}

Call(op, recv, out) ==
    [op |-> op, recv |-> recv, err |-> out.err, ret |-> out.ret, flag |-> out.flag]

Created(op, recv, out) ==
    [i \in 1..(Len(out.arr) - Len(arr)) |->
        IF out.ret = RefV(Len(arr) + i) THEN [op |-> op, recv |-> recv]
        ELSE [op |-> "nested", recv |-> 0]]

Step(op, recv, out) ==
    /\ calls < lim
    /\ LET G == Collect(Heap(out.arr, out.store))
       IN  arr' = G.arr /\ store' = G.store
    /\ res' = Call(op, recv, out)
    /\ derived' = derived \o Created(op, recv, out)
    /\ calls' = calls + 1
    /\ UNCHANGED <<held, arg, lim, running, nodes>>

\* a call whose argument the caller keeps
StepWith(op, recv, a, out) ==
    /\ calls < lim
    /\ LET G == Collect(Heap(out.arr, out.store))
       IN  arr' = G.arr /\ store' = G.store
    /\ res' = Call(op, recv, out)
    /\ derived' = derived \o Created(op, recv, out)
    /\ arg' = a
    /\ calls' = calls + 1
    /\ UNCHANGED <<held, lim, running, nodes>>

DoAdd(v, val) == Step("Add", v, Add(Cur, v, val))
DoAddAll(v, values) == Step("AddAll", v, AddAll(Cur, v, values))
DoAddValues(v, values) == Step("AddValues", v, AddValues(Cur, v, values))
DoInsert(v, pos, val) == Step("Insert", v, Insert(Cur, v, pos, val))
DoSet(v, pos, val) == Step("Set", v, Set(Cur, v, pos, val))
DoRemove(v, pos) == Step("Remove", v, Remove(Cur, v, pos))
DoRemoveValue(v, val) == Step("RemoveValue", v, RemoveValue(Cur, v, val))
DoPop(v) == Step("Pop", v, Pop(Cur, v))
DoSetType(v, ti) == Step("SetType", v, SetType(Cur, v, ti))
DoFreeze(v) == Step("Freeze", v, Freeze(Cur, v))
DoCopy(v, frozen) == Step("Copy", v, Copy(Cur, v, frozen))
DoFrozenCopy(v) == Step("FrozenCopy", v, FrozenCopy(Cur, v))
DoWith(v, val) == Step("With", v, With(Cur, v, val))
DoWithAll(v, values) == Step("WithAll", v, WithAll(Cur, v, values))
DoWithValues(v, values) == Step("WithValues", v, WithValues(Cur, v, values))
DoSlice(v, i, j) == Step("Slice", v, Slice(Cur, v, i, j))
DoMap(v, mapper) == Step("Map", v, Map(Cur, v, mapper))
DoMapTo(v, t, mapper) == Step("MapTo", v, MapTo(Cur, v, t, mapper))
DoValues(values) == Step("Values", 0, Values(Cur, values))
DoWrapSlice(typ, values) == Step("WrapSlice", 0, WrapSlice(Cur, typ, values))
DoArrayWithCapacity(capacity, typ) ==
    Step("ArrayWithCapacity", 0, ArrayWithCapacity(Cur, capacity, typ))

NoCall == [op |-> "none", recv |-> 0, err |-> "ok", ret |-> GoNil, flag |-> FALSE]

DoType(v) ==
    /\ calls < lim
    /\ held' = Type(Cur, v)
    /\ res' = [NoCall EXCEPT !.op = "Type", !.recv = v]
    /\ calls' = calls + 1
    /\ UNCHANGED <<arr, store, derived, arg, lim, running, nodes>>

\* positions 0..len of array v (len itself is the position past the end)
Positions(v) == 0..arr[v].len

EmptyHeap(l) ==
    /\ arr = <<>>
    /\ store = <<>>
    /\ res = NoCall
    /\ derived = <<>>
    /\ held = NoType
    /\ arg = NoType
    /\ calls = 0
    /\ lim = l
    /\ running = NoGoroutines
    /\ nodes = NoNodes

\* ------------------------------------------------------------------ Spec: arrays without element constraint
Prims == {IntV(1), IntV(2)}

\* the argument lists of the variadic calls and factories
Lists == {<<>>, <<IntV(1)>>, <<IntV(1), IntV(2)>>}

Init == EmptyHeap(MaxCalls)

Next ==
    \/ \E vs \in Lists : DoValues(vs)
    \/ \E vs \in Lists : DoWrapSlice(NoType, vs)
    \/ \E c \in {0, 2} : DoArrayWithCapacity(c, NoType)
    \/ \E v \in Arrays, val \in Prims \cup Refs : DoAdd(v, val)
    \/ \E v \in Arrays, b \in Arrays : DoAddAll(v, b)
    \/ \E v \in Arrays, vs \in Lists : DoAddValues(v, vs)
    \/ \E v \in Arrays : \E pos \in Positions(v) : DoInsert(v, pos, IntV(2))
    \/ \E v \in Arrays : \E pos \in Positions(v) : DoSet(v, pos, IntV(2))
    \/ \E v \in Arrays : \E pos \in Positions(v) : DoRemove(v, pos)
    \/ \E v \in Arrays, val \in Prims : DoRemoveValue(v, val)
    \/ \E v \in Arrays : DoPop(v)
    \/ \E v \in Arrays, ti \in {NoType, DefaultArrayType, IntegerType} : DoSetType(v, ti)
    \/ \E v \in Arrays : DoFreeze(v)
    \/ \E v \in Arrays : DoCopy(v, FALSE)
    \/ \E v \in Arrays : DoFrozenCopy(v)
    \/ \E v \in Arrays, val \in Prims \cup Refs : DoWith(v, val)
    \/ \E v \in Arrays, b \in Arrays : DoWithAll(v, b)
    \/ \E v \in Arrays, vs \in Lists \cup {<<r>> : r \in Refs} : DoWithValues(v, vs)
    \/ \E v \in Arrays : \E i \in Positions(v), j \in 0..Cap(Cur, v) : DoSlice(v, i, j)
    \/ \E v \in Arrays, m \in {IdMapper} \cup {ConstMapper(x) : x \in Refs} : DoMap(v, m)
    \/ \E v \in Arrays : DoType(v)

Spec == Init /\ [][Next]_vars

\* ------------------------------------------------------------------ properties of Spec
Mutators ==
    {"Add", "AddAll", "AddValues", "Insert", "Set", "Remove", "RemoveValue", "Pop", "SetType"}

WithOps == {"With", "WithAll", "WithValues"}

Next2 == Heap(arr', store')

\* C1: on a frozen array each of Add, AddAll, AddValues, Insert, Set, Remove,
\* RemoveValue, Pop and SetType fails with the frozen-array error and leaves
\* the array (its elements, length, declared type and frozen flag) as it was.
C1_FrozenMutationFails ==
    [][(res'.op \in Mutators /\ arr[res'.recv].frozen)
        => /\ res'.err = frozenArray
           /\ arr'[res'.recv] = arr[res'.recv]
           /\ Elems(Next2, res'.recv) = Elems(Cur, res'.recv)]_vars

C1_Witness ==
    /\ res.op \in Mutators
    /\ res.err = frozenArray
    /\ arr[res.recv].frozen
    /\ arr[res.recv].len > 0

\* C2: once an array is frozen, the values Len and Get return for it never
\* change, whatever is called on it or on arrays derived from it.
C2_FrozenContentsStable ==
    [][\A a \in Arrays : arr[a].frozen => Elems(Next2, a) = Elems(Cur, a)]_vars

\* C3: once Frozen() is true it stays true; Copy(false) of a frozen array
\* returns another, unfrozen array and leaves the receiver frozen.
C3_FrozenForever ==
    [][/\ \A a \in Arrays : arr[a].frozen => arr'[a].frozen
       /\ (res'.op = "Copy" /\ arr[res'.recv].frozen)
            => /\ res'.err = "ok"
               /\ res'.ret.k = "ref"
               /\ res'.ret.v \notin Arrays
               /\ ~arr'[res'.ret.v].frozen
               /\ Elems(Next2, res'.ret.v) = Elems(Cur, res'.recv)]_vars

C3_Witness ==
    /\ res.op = "Copy"
    /\ res.err = "ok"
    /\ arr[res.recv].frozen
    /\ ~arr[res.ret.v].frozen

\* C4: every array that is an element of a frozen array is frozen.
C4_FrozenElementsFrozen ==
    \A a \in Arrays : arr[a].frozen =>
        \A i \in 1..arr[a].len :
            Elems(Cur, a)[i].k = "ref" => arr[Elems(Cur, a)[i].v].frozen

\* C9: With, WithAll and WithValues leave the receiver as it was and return a
\* new array holding the receiver's values followed by the added ones, with
\* the receiver's frozen flag and declared type; afterwards a mutation of the
\* receiver does not change the result, nor one of the result the receiver.
C9_WithIsolated ==
    [][/\ (res'.op \in WithOps /\ res'.err = "ok")
            => /\ Elems(Next2, res'.recv) = Elems(Cur, res'.recv)
               /\ arr'[res'.ret.v].frozen = arr[res'.recv].frozen
               /\ arr'[res'.ret.v].typ = arr[res'.recv].typ
               /\ SubSeq(Elems(Next2, res'.ret.v), 1, arr[res'.recv].len)
                     = Elems(Cur, res'.recv)
       /\ \A r \in Arrays :
            (derived[r].op \in WithOps /\ res'.op \in Mutators)
                => /\ res'.recv = derived[r].recv => Elems(Next2, r) = Elems(Cur, r)
                   /\ res'.recv = r
                        => Elems(Next2, derived[r].recv) = Elems(Cur, derived[r].recv)]_vars

\* ------------------------------------------------------------------ SpecTyped: arrays with a declared type
\* math.MaxInt64 as the max of Array(Integer) makes the type unbounded above
SizedT == newArrayType(IntegerType, 1, 2)
PlainTupleT == newTupleType(<<StringType, IntegerType>>, FALSE)
VariadicTupleT ==
    newTupleType(<<StringType, newArrayType(IntegerType, 0, MaxInt64)>>, TRUE)

DeclaredTypes == {SizedT, PlainTupleT, VariadicTupleT}

TypedPrims == {IntV(1), StrV(1)}

TypedLists ==
    {<<>>, <<IntV(1)>>, <<StrV(1)>>, <<IntV(1), IntV(1)>>, <<StrV(1), IntV(1)>>}

InitTyped == EmptyHeap(MaxTypedCalls)

NextTyped ==
    \/ \E t \in DeclaredTypes \cup {NoType}, vs \in TypedLists : DoWrapSlice(t, vs)
    \/ \E t \in DeclaredTypes : DoArrayWithCapacity(2, t)
    \/ \E v \in Arrays, val \in TypedPrims : DoAdd(v, val)
    \/ \E v \in Arrays, b \in Arrays : DoAddAll(v, b)
    \/ \E v \in Arrays, vs \in TypedLists : DoAddValues(v, vs)
    \/ \E v \in Arrays : \E pos \in Positions(v), val \in TypedPrims : DoInsert(v, pos, val)
    \/ \E v \in Arrays : \E pos \in Positions(v), val \in TypedPrims : DoSet(v, pos, val)
    \/ \E v \in Arrays : \E pos \in Positions(v) : DoRemove(v, pos)
    \/ \E v \in Arrays, val \in TypedPrims : DoRemoveValue(v, val)
    \/ \E v \in Arrays : DoPop(v)
    \/ \E v \in Arrays, val \in TypedPrims : DoWith(v, val)
    \/ \E v \in Arrays, b \in Arrays : DoWithAll(v, b)
    \/ \E v \in Arrays, vs \in TypedLists : DoWithValues(v, vs)

SpecTyped == InitTyped /\ [][NextTyped]_vars

\* the type the declared type t gives to position pos (counted from 0)
PositionType(t, pos) ==
    IF t.k = "tuple"
    THEN IF t.variadic /\ pos >= Len(t.types) - 1
         THEN ElementType(t.types[Len(t.types)])
         ELSE t.types[pos + 1]
    ELSE ElementType(t)

\* array a holds its declared type: the length is within Min()..Max() and
\* every element is an instance of the type of its position
Conforms(H, a) ==
    LET t == H.arr[a].typ
    IN  /\ Min(t) <= H.arr[a].len
        /\ H.arr[a].len <= Max(t)
        /\ \A i \in 1..H.arr[a].len :
              /\ t.k = "tuple" => (t.variadic \/ i <= Len(t.types))
              /\ Instance(H, PositionType(t, i - 1), Elems(H, a)[i])

Succeeded(ops) == res'.op \in ops /\ res'.err = "ok"

\* C5: an array declared with a sized array type is an instance of that type
\* after every successful Add, AddAll, AddValues, Insert, Set, Remove,
\* RemoveValue and Pop.
C5_SizedTypeKept ==
    [][\A a \in Arrays :
          (/\ arr[a].typ.k = "sized"
           /\ Conforms(Cur, a)
           /\ res'.recv = a
           /\ Succeeded({"Add", "AddAll", "AddValues", "Insert", "Set",
                         "Remove", "RemoveValue", "Pop"}))
            => Conforms(Next2, a)]_vars

\* C6: an array declared with a tuple type holds, after every successful Add,
\* AddAll, AddValues, Insert, Set, Remove and Pop, at every position an
\* instance of the tuple's type for that position, and its length is within
\* the tuple's Min()..Max().
C6_TupleTypeKept ==
    [][\A a \in Arrays :
          (/\ arr[a].typ.k = "tuple"
           /\ Conforms(Cur, a)
           /\ res'.recv = a
           /\ Succeeded({"Add", "AddAll", "AddValues", "Insert", "Set", "Remove", "Pop"}))
            => Conforms(Next2, a)]_vars

\* C7: on a non-frozen array with declared type T, a call adding n values that
\* would make the length exceed T.Max() fails with IllegalSize, and one whose
\* value is no instance of the element type of its position fails with
\* IllegalAssignment (IllegalSize when the size is wrong as well); the
\* receiver is unchanged by the failed call.
Typed(v) == arr[v].typ # NoType /\ ~arr[v].frozen

Rejected(v, tooLong, badValue) ==
    /\ tooLong => res'.err = "IllegalSize"
    /\ badValue => res'.err \in {"IllegalSize", "IllegalAssignment"}
    /\ (tooLong \/ badValue) => Elems(Next2, v) = Elems(Cur, v)

TooLong(v, n) == n > 0 /\ arr[v].len + n > Max(arr[v].typ)

BadAt(v, pos, val) ==
    /\ arr[v].typ.k = "tuple" => (arr[v].typ.variadic \/ pos < Len(arr[v].typ.types))
    /\ ~Instance(Cur, PositionType(arr[v].typ, pos), val)

BadList(v, vs) == \E i \in 1..Len(vs) : BadAt(v, arr[v].len + i - 1, vs[i])

C7_IllegalCallsRejected ==
    [][\A v \in Arrays : Typed(v) =>
          /\ \A val \in TypedPrims :
                /\ DoAdd(v, val)
                     => Rejected(v, TooLong(v, 1), BadAt(v, arr[v].len, val))
                /\ DoWith(v, val)
                     => Rejected(v, TooLong(v, 1), BadAt(v, arr[v].len, val))
                /\ \A pos \in Positions(v) :
                     /\ DoInsert(v, pos, val)
                          => Rejected(v, TooLong(v, 1), BadAt(v, pos, val))
                     /\ (DoSet(v, pos, val) /\ pos < arr[v].len)
                          => Rejected(v, FALSE, BadAt(v, pos, val))
          /\ \A vs \in TypedLists :
                /\ DoAddValues(v, vs) => Rejected(v, TooLong(v, Len(vs)), BadList(v, vs))
                /\ DoWithValues(v, vs) => Rejected(v, TooLong(v, Len(vs)), BadList(v, vs))
          /\ \A b \in Arrays :
                /\ DoAddAll(v, b)
                     => Rejected(v, TooLong(v, arr[b].len), BadList(v, Elems(Cur, b)))
                /\ DoWithAll(v, b)
                     => Rejected(v, TooLong(v, arr[b].len), BadList(v, Elems(Cur, b)))]_vars

\* ------------------------------------------------------------------ SpecNested: arrays holding arrays
\* The calls start from a heap that four calls have built:
\*   m := WrapSlice(nil, [1])
\*   e := Values()  or  e := WrapSlice(nil, [])
\*   h := e.With(m)
\*   r := WrapSlice(t, [h])   with t nil or the default array type
After(o) == Heap(o.arr, o.store)

Built(frozenHolder, t) ==
    LET m == WrapSlice(Heap(<<>>, <<>>), NoType, <<IntV(1)>>)
        e == IF frozenHolder THEN Values(After(m), <<>>)
             ELSE WrapSlice(After(m), NoType, <<>>)
        h == With(After(e), e.ret.v, m.ret)
        r == WrapSlice(After(h), t, <<h.ret>>)
    IN  Collect(After(r))

BuiltBy(frozenHolder) ==
    << [op |-> "WrapSlice", recv |-> 0],
       [op |-> IF frozenHolder THEN "Values" ELSE "WrapSlice", recv |-> 0],
       [op |-> "With", recv |-> 2],
       [op |-> "WrapSlice", recv |-> 0] >>

InitNested ==
    \E frozenHolder \in BOOLEAN, t \in {NoType, DefaultArrayType} :
        /\ arr = Built(frozenHolder, t).arr
        /\ store = Built(frozenHolder, t).store
        /\ res = NoCall
        /\ derived = BuiltBy(frozenHolder)
        /\ held = NoType
        /\ arg = NoType
        /\ calls = 0
        /\ lim = MaxNestedCalls
        /\ running = NoGoroutines
        /\ nodes = NoNodes

NextNested ==
    \/ \E v \in Arrays : DoFrozenCopy(v)
    \/ \E v \in Arrays : DoCopy(v, FALSE)
    \/ \E v \in Arrays : DoFreeze(v)
    \/ \E v \in Arrays : DoType(v)
    \/ \E v \in Arrays, val \in Prims : DoAdd(v, val)
    \/ \E v \in Arrays : \E pos \in Positions(v), val \in Prims : DoInsert(v, pos, val)
    \/ \E v \in Arrays : \E pos \in Positions(v), val \in Prims : DoSet(v, pos, val)
    \/ \E v \in Arrays : \E pos \in Positions(v) : DoRemove(v, pos)
    \/ \E v \in Arrays : DoPop(v)

SpecNested == InitNested /\ [][NextNested]_vars

\* the contents of value x with every array in it replaced by its contents
RECURSIVE Contents(_, _, _)
Contents(H, x, fuel) ==
    IF x.k # "ref" \/ fuel = 0 THEN x
    ELSE [k |-> "array",
          elems |-> [i \in 1..H.arr[x.v].len |-> Contents(H, Elems(H, x.v)[i], fuel - 1)]]

DeepContents(H, a) == Contents(H, RefV(a), Len(H.arr) + 1)

\* C8: FrozenCopy of a non-frozen array returns a distinct frozen array equal
\* to the receiver and changes no array's frozen flag; no later call changes
\* the contents of the copy, nested arrays included.
C8_FrozenCopyIsolated ==
    [][/\ (res'.op = "FrozenCopy" /\ ~arr[res'.recv].frozen /\ res'.err = "ok")
            => /\ res'.ret.k = "ref"
               /\ res'.ret.v \notin Arrays
               /\ arr'[res'.ret.v].frozen
               /\ ArrayEquals(Next2, res'.ret.v, res'.recv)
               /\ \A a \in Arrays : arr'[a].frozen = arr[a].frozen
       /\ \A c \in Arrays :
             derived[c].op = "FrozenCopy" => DeepContents(Next2, c) = DeepContents(Cur, c)]_vars

\* b has the length of a and at every position an element equal to a's
ElementwiseEqual(H, a, b) ==
    /\ H.arr[a].len = H.arr[b].len
    /\ \A i \in 1..H.arr[a].len :
          LET x == Elems(H, a)[i]
              y == Elems(H, b)[i]
          IN  x = y \/ (x.k = "ref" /\ y.k = "ref" /\ ArrayEquals(H, x.v, y.v))

IsExactTypeOf(H, T, a) ==
    /\ T.k = "exact"
    /\ \A b \in 1..Len(H.arr) : Instance(H, T, RefV(b)) <=> ElementwiseEqual(H, a, b)
    /\ \A p \in Prims : ~Instance(H, T, p)

\* C10: Type() of an array with no declared type is an exact type whose
\* instances are the arrays equal element by element to the array's current
\* contents, also when the type was obtained before a later mutation; Type()
\* of an array with a declared type is that type.
C10_TypeFollowsContents ==
    /\ \A a \in Arrays :
          IF arr[a].typ = NoType THEN IsExactTypeOf(Cur, Type(Cur, a), a)
          ELSE Type(Cur, a) = arr[a].typ
    /\ (res.op = "Type" /\ arr[res.recv].typ # NoType) => held = arr[res.recv].typ
    /\ (held # NoType /\ held.k = "exact") => IsExactTypeOf(Cur, held, held.id)

C10_Witness ==
    /\ held # NoType
    /\ held.k = "exact"
    /\ res.op \in Mutators
    /\ res.err = "ok"
    /\ res.recv = held.id
    /\ \E b \in Arrays \ {held.id} : arr[b].len > 0 /\ Instance(Cur, held, RefV(b))

\* ------------------------------------------------------------------ SpecTypes: types and values compared
\* The calls start from a heap that eight factory calls have built:
\*   1: WrapSlice(nil, [])            2: WrapSlice(nil, [1])
\*   3: WrapSlice(nil, [1])           4: WrapSlice(nil, ["a", 1])
\*   5: WrapSlice({string,int}, ["a", 1])
\*   6: WrapSlice(nil, ["a", "a"])    7: ArrayWithCapacity(1, [1,2]int)
\*   8: WrapSlice(nil, [1, 1, 1])
\* The caller holds one value and passes another one to the calls it makes
\* on it; both are drawn from these arrays, their types, array types and
\* meta types.
BuiltTypes ==
    LET a1 == WrapSlice(Heap(<<>>, <<>>), NoType, <<>>)
        a2 == WrapSlice(After(a1), NoType, <<IntV(1)>>)
        a3 == WrapSlice(After(a2), NoType, <<IntV(1)>>)
        a4 == WrapSlice(After(a3), NoType, <<StrV(1), IntV(1)>>)
        a5 == WrapSlice(After(a4), PlainTupleT, <<StrV(1), IntV(1)>>)
        a6 == WrapSlice(After(a5), NoType, <<StrV(1), StrV(1)>>)
        a7 == ArrayWithCapacity(After(a6), 1, SizedT)
        a8 == WrapSlice(After(a7), NoType, <<IntV(1), IntV(1), IntV(1)>>)
    IN  Collect(After(a8))

BuiltTypesBy ==
    [i \in 1..8 |-> [op |-> IF i = 7 THEN "ArrayWithCapacity" ELSE "WrapSlice", recv |-> 0]]

IntegerArrayT == newArrayType(IntegerType, 0, MaxInt64)

StringArrayT == newArrayType(StringType, 0, MaxInt64)

SizedTypes ==
    {IntegerArrayT, StringArrayT, SizedT,
     newArrayType(NoType, 2, 2), newArrayType(StringType, 2, 2),
     newArrayType(IntegerType, 0, 1)}

TupleTypes ==
    {DefaultTupleType, PlainTupleT, VariadicTupleT,
     newTupleType(<<StringType, StringType>>, FALSE),
     newTupleType(<<IntegerType>>, FALSE),
     newTupleType(<<StringType, StringArrayT>>, TRUE),
     newTupleType(<<StringType, SizedT>>, TRUE),
     newTupleType(<<IntegerArrayT>>, TRUE)}

ExactTypes == {ExactArrayType(a) : a \in {1, 2, 3, 4, 6, 8}}

ArrayTypes == {DefaultArrayType} \cup SizedTypes \cup TupleTypes \cup ExactTypes

MetaTypes ==
    {MetaType(NoType), MetaType(DefaultArrayType), MetaType(SizedT),
     MetaType(PlainTupleT), MetaType(ExactArrayType(2)), MetaType(ExactArrayType(3))}

ArrayValues == {RefV(a) : a \in 1..8}

Universe == ArrayValues \cup ArrayTypes \cup MetaTypes \cup {IntV(1), StrV(1)}

InitTypes ==
    /\ arr = BuiltTypes.arr
    /\ store = BuiltTypes.store
    /\ res = NoCall
    /\ derived = BuiltTypesBy
    /\ held \in Universe
    /\ arg \in Universe
    /\ calls = 0
    /\ lim = MaxTypeSteps
    /\ running = NoGoroutines
    /\ nodes = NoNodes

\* a call on held that changes nothing and answers yes or no
Query(op, answer) ==
    /\ calls < lim
    /\ res' = [NoCall EXCEPT !.op = op, !.recv = held, !.flag = answer]
    /\ calls' = calls + 1
    /\ UNCHANGED <<arr, store, derived, held, arg, lim, running, nodes>>

\* held = held.Type()
DoTypeOf ==
    /\ calls < lim
    /\ held' = TypeOf(Cur, held)
    /\ res' = [NoCall EXCEPT !.op = "TypeOf", !.recv = held]
    /\ calls' = calls + 1
    /\ UNCHANGED <<arr, store, derived, arg, lim, running, nodes>>

\* held.Equals(arg)
DoEquals == Query("Equals", Equals(Cur, held, arg))

\* held.Assignable(arg)
DoAssignable ==
    /\ IsType(held)
    /\ IsType(arg)
    /\ Query("Assignable", Assignable(Cur, held, arg))

\* held.Instance(arg)
DoInstance ==
    /\ IsType(held)
    /\ Query("Instance", Instance(Cur, held, arg))

\* held.HashCode()
DoHashCode ==
    /\ calls < lim
    /\ LET c == HashCode(Cur, {}, held)
       IN  res' = [NoCall EXCEPT !.op = "HashCode", !.recv = held, !.err = c.err,
                                 !.ret = IntV(c.h)]
    /\ calls' = calls + 1
    /\ UNCHANGED <<arr, store, derived, held, arg, lim, running, nodes>>

NextTypes ==
    \/ DoTypeOf
    \/ DoEquals
    \/ DoAssignable
    \/ DoInstance
    \/ DoHashCode

SpecTypes == InitTypes /\ [][NextTypes]_vars

\* the answer of the call just made
Answered(op) == res'.op = op /\ res'.flag

Refused(op) == res'.op = op /\ ~res'.flag

\* ------------------------------------------------------------------ properties of SpecTypes
Declared(x) == x.k = "ref" /\ arr[x.v].typ # NoType

Undeclared(x) == x.k = "ref" /\ arr[x.v].typ = NoType

\* arrays, array types and meta types
Typeish(x) == x.k = "ref" \/ IsArrayType(x) \/ x.k = "meta"

\* V.Type().Equals(W.Type())
SameType(v, w) == Equals(Cur, TypeOf(Cur, v), TypeOf(Cur, w))

\* C11 as stated: for arrays, array types and meta types V and W, V is an
\* instance of V.Type(), and V.Type() equals W.Type() exactly when V equals W.
C11_ExactRoundTrip ==
    [][(Typeish(held) /\ Typeish(arg)) =>
          /\ (res'.op = "TypeOf" => Instance(Cur, held', held))
          /\ (res'.op = "Equals" => (res'.flag <=> SameType(held, arg)))]_vars

\* C11: for arrays without a declared type, array types and meta types V and
\* W, V is an instance of V.Type() and V.Equals(W) implies that V.Type()
\* equals W.Type(); equal types imply V.Equals(W) unless V and W are both
\* meta types.
C11_RoundTripOfUndeclared ==
    [][(Typeish(held) /\ ~Declared(held) /\ Typeish(arg) /\ ~Declared(arg)) =>
          /\ (res'.op = "TypeOf" => Instance(Cur, held', held))
          /\ (Answered("Equals") => SameType(held, arg))
          /\ (Refused("Equals") /\ ~(held.k = "meta" /\ arg.k = "meta"))
                => ~SameType(held, arg)]_vars

C11_Witness ==
    /\ res.op = "Equals"
    /\ res.flag
    /\ Undeclared(held)
    /\ Undeclared(arg)
    /\ held # arg
    /\ arr[held.v].len > 0

MetaTypeType == MetaType(NoType)

\* C12: repeated Type() from an array type or a meta type reaches Meta{nil}
\* after at most two steps and stays there: an array type t gives Meta{t}, a
\* meta type with an operand gives a value equal to Meta{nil}, and the type
\* of Meta{nil} equals Meta{nil}.
C12_MetaFixedPoint ==
    [][res'.op = "TypeOf" =>
          /\ IsArrayType(held) =>
                /\ held' = MetaType(held)
                /\ Equals(Cur, TypeOf(Cur, held'), MetaTypeType)
          /\ (held.k = "meta" /\ held.tp # NoType) =>
                /\ Equals(Cur, held', MetaTypeType)
                /\ held'.tp = NoType
          /\ (held.k = "meta" /\ held.tp = NoType) =>
                /\ Equals(Cur, held', MetaTypeType)
                /\ held'.tp = NoType]_vars

C12_Witness ==
    /\ res.op = "TypeOf"
    /\ res.recv.k = "meta"
    /\ res.recv.tp # NoType
    /\ IsArrayType(res.recv.tp)
    /\ held = MetaTypeType
    /\ calls >= 2

\* op.Equals(op') for the operands of two meta types; nil equals nil only
OperandEquals(op, other) ==
    IF op = NoType \/ other = NoType THEN op = other ELSE Equals(Cur, op, other)

\* C13: Meta{op} is assignable from other iff other is a meta type whose
\* operand equals op (nil equals nil); a value is an instance of Meta{op}
\* with an operand iff it is a type that op is assignable from, and of
\* Meta{nil} iff it is a meta type; a value that is no type is an instance
\* of no meta type.
C13_MetaAssignableInstance ==
    [][held.k = "meta" =>
          /\ res'.op = "Assignable" =>
                (res'.flag <=> (arg.k = "meta" /\ OperandEquals(held.tp, arg.tp)))
          /\ (res'.op = "Instance" /\ held.tp # NoType) =>
                (res'.flag <=> (IsType(arg) /\ Assignable(Cur, held.tp, arg)))
          /\ (res'.op = "Instance" /\ held.tp = NoType) =>
                (res'.flag <=> (IsType(arg) /\ arg.k = "meta"))
          /\ (res'.op = "Instance" /\ ~IsType(arg)) => ~res'.flag]_vars

C13_Witness ==
    /\ res.op = "Assignable"
    /\ res.flag
    /\ res.recv.k = "meta"
    /\ res.recv.tp # NoType
    /\ arg.k = "meta"
    /\ arg # res.recv

\* C14: HashCode() of an array, an array type or a meta type (Meta{nil}
\* included) returns without failing, and two of them that are equal have
\* the same hash code.
C14_HashCodeConsistent ==
    [][(res'.op = "HashCode" /\ Typeish(held)) =>
          /\ res'.err = "ok"
          /\ (Typeish(arg) /\ Equals(Cur, held, arg)) =>
                HashCode(Cur, {}, arg) = [err |-> "ok", h |-> res'.ret.v]]_vars

\* C15: assignability of array types is sound for instances: when A is
\* assignable from B, every array that is an instance of B is an instance
\* of A.
C15_AssignableSound ==
    [][(Answered("Assignable") /\ IsArrayType(held) /\ IsArrayType(arg)) =>
          \A a \in Arrays : Instance(Cur, arg, RefV(a)) => Instance(Cur, held, RefV(a))]_vars

\* the type tuple t gives to position i (counted from 0); NoType when its
\* instances have no such position
PosType(t, i) ==
    LET fixed == IF t.variadic THEN Len(t.types) - 1 ELSE Len(t.types)
    IN  IF i < fixed THEN t.types[i + 1]
        ELSE IF t.variadic /\ i < tupleMax(t) THEN ElementType(t.types[fixed + 1])
        ELSE NoType

\* the positions that tell two tuples apart: past the longer one every
\* position has the tail's element type
TuplePositions(t, other) ==
    0..(IF Len(t.types) < Len(other.types) THEN Len(other.types) ELSE Len(t.types))

\* C16: tuple T is assignable from tuple T' iff T.Min() <= T'.Min(),
\* T'.Max() <= T.Max() and at every position an instance of T' can have,
\* T's type for the position is assignable from T''s type for it; the two
\* variadic tails' element types are compared as well.
C16_TupleAssignableByPosition ==
    [][(res'.op = "Assignable" /\ held.k = "tuple" /\ arg.k = "tuple") =>
          (res'.flag <=>
              /\ tupleMin(held) <= tupleMin(arg)
              /\ tupleMax(arg) <= tupleMax(held)
              /\ \A i \in TuplePositions(held, arg) :
                    PosType(arg, i) # NoType =>
                        /\ PosType(held, i) # NoType
                        /\ Assignable(Cur, PosType(held, i), PosType(arg, i)))]_vars

\* C17: T.Assignable(T) and T.Equals(T) for every array type and meta type
\* T, and for array types A, B, C: A.Assignable(B) and B.Assignable(C) imply
\* A.Assignable(C).
C17_ReflexiveTransitive ==
    [][/\ ((IsArrayType(held) \/ held.k = "meta") /\ held = arg
              /\ res'.op \in {"Assignable", "Equals"}) => res'.flag
       /\ (Answered("Assignable") /\ IsArrayType(held) /\ IsArrayType(arg)) =>
             \A c \in ArrayTypes : Assignable(Cur, arg, c) => Assignable(Cur, held, c)]_vars

ElementsOf(v) == Elems(Cur, v.v)

\* C19: a value is an instance of the sized array type S{e,min,max} iff it
\* is an array with min <= Len() <= max whose every element is an instance
\* of e; a value that is no array is never an instance.
C19_SizedInstance ==
    [][(res'.op = "Instance" /\ held.k = "sized") =>
          IF arg.k = "ref"
          THEN res'.flag <=>
                  /\ held.min <= Len(ElementsOf(arg))
                  /\ Len(ElementsOf(arg)) <= held.max
                  /\ \A i \in 1..Len(ElementsOf(arg)) :
                        Instance(Cur, held.elementType, ElementsOf(arg)[i])
          ELSE ~res'.flag]_vars

C19_Witness ==
    /\ res.op = "Instance"
    /\ res.flag
    /\ res.recv.k = "sized"
    /\ res.recv.min > 0
    /\ res.recv.elementType # DefaultAnyType
    /\ arg.k = "ref"

\* C20: an array v is an instance of a non-variadic tuple T iff
\* Len() = T.Len() and every v[i] is an instance of T.Element(i); of a
\* variadic tuple T iff T.Min() <= Len() <= T.Max(), the first T.Len()-1
\* elements are instances of the fixed position types and every remaining
\* element is an instance of the tail array type's element type.
C20_TupleInstance ==
    [][(res'.op = "Instance" /\ held.k = "tuple" /\ arg.k = "ref") =>
          LET s == ElementsOf(arg)
              fixed == Len(held.types) - 1
          IN  IF held.variadic
              THEN res'.flag <=>
                      /\ tupleMin(held) <= Len(s)
                      /\ Len(s) <= tupleMax(held)
                      /\ \A i \in 1..Len(s) :
                            Instance(Cur,
                                     IF i <= fixed THEN held.types[i]
                                     ELSE ElementType(held.types[fixed + 1]),
                                     s[i])
              ELSE res'.flag <=>
                      /\ Len(s) = Len(held.types)
                      /\ \A i \in 1..Len(s) : Instance(Cur, held.types[i], s[i])]_vars

C20_Witness ==
    /\ res.op = "Instance"
    /\ res.flag
    /\ res.recv.k = "tuple"
    /\ res.recv.variadic
    /\ arg.k = "ref"
    /\ Len(ElementsOf(arg)) > Len(res.recv.types)

\* ------------------------------------------------------------------ SpecFactories: the type factories
\* The caller makes types with ArrayType, TupleType and VariadicTupleType and
\* holds the last one made; the arrays are those of SpecTypes.
FactoryArgs ==
    {DefaultAnyType, IntegerType, IntV(0 - 1), IntV(0), IntV(2), IntV(MaxInt64), StrV(1)}

FactoryBounds == {a \in FactoryArgs : IsInteger(a)}

ArgLists ==
    {<<>>} \cup {<<a>> : a \in FactoryArgs} \cup (FactoryArgs \X FactoryArgs)
        \cup ((FactoryArgs \ FactoryBounds) \X FactoryBounds \X FactoryBounds)
        \cup {<<IntegerType, StrV(1), IntV(2)>>, <<IntegerType, IntV(0), IntV(2), IntV(2)>>}

PositionTypes == {StringType, IntegerType, IntegerArrayT, SizedT}

TypeLists ==
    {<<>>} \cup {<<t>> : t \in PositionTypes} \cup (PositionTypes \X PositionTypes)

InitFactories ==
    /\ arr = BuiltTypes.arr
    /\ store = BuiltTypes.store
    /\ res = NoCall
    /\ derived = BuiltTypesBy
    /\ held = NoType
    /\ arg = NoType
    /\ calls = 0
    /\ lim = MaxTypeSteps
    /\ running = NoGoroutines
    /\ nodes = NoNodes

\* a factory call with its arguments; the caller holds the type made
Make(op, args, made) ==
    /\ calls < lim
    /\ held' = IF made.err = "ok" THEN made.t ELSE held
    /\ res' = [NoCall EXCEPT !.op = op, !.recv = args, !.err = made.err]
    /\ calls' = calls + 1
    /\ UNCHANGED <<arr, store, derived, arg, lim, running, nodes>>

DoArrayType(args) == Make("ArrayType", args, ArrayType(args))

DoTupleType(types) == Make("TupleType", types, TupleType(types))

DoVariadicTupleType(types) == Make("VariadicTupleType", types, VariadicTupleType(types))

NextFactories ==
    \/ \E args \in ArgLists : DoArrayType(args)
    \/ \E types \in TypeLists : DoTupleType(types)
    \/ \E types \in TypeLists : DoVariadicTupleType(types)

SpecFactories == InitFactories /\ [][NextFactories]_vars

\* ------------------------------------------------------------------ properties of SpecFactories
Clamp(n) == IF n < 0 THEN 0 ELSE n

Lower(m, n) == IF Clamp(m) < Clamp(n) THEN Clamp(m) ELSE Clamp(n)

Upper(m, n) == IF Clamp(m) < Clamp(n) THEN Clamp(n) ELSE Clamp(m)

\* ArrayType(elem, min, max) was called and returned
MadeArrayType == res'.op = "ArrayType" /\ res'.err = "ok" /\ Len(res'.recv) = 3

\* C21: ArrayType(elem, min, max) returns the default array type iff, with
\* negative bounds taken as 0 and the bounds put in order, elem is Any, min
\* is 0 and max is unbounded; otherwise a sized type with exactly these
\* values; every sized type made has 0 <= Min() <= Max().
C21_ArrayTypeNormalized ==
    [][/\ MadeArrayType =>
             LET elem == res'.recv[1]
                 lo == Lower(res'.recv[2].v, res'.recv[3].v)
                 hi == Upper(res'.recv[2].v, res'.recv[3].v)
             IN  IF elem = DefaultAnyType /\ lo = 0 /\ hi = MaxInt64
                 THEN held' = DefaultArrayType
                 ELSE /\ held'.k = "sized"
                      /\ held'.elementType = elem
                      /\ Min(held') = lo
                      /\ Max(held') = hi
       /\ (res'.op = "ArrayType" /\ res'.err = "ok" /\ held'.k = "sized") =>
             (0 <= Min(held') /\ Min(held') <= Max(held'))]_vars

C21_Witness ==
    /\ res.op = "ArrayType"
    /\ res.err = "ok"
    /\ Len(res.recv) = 3
    /\ res.recv[2].v > res.recv[3].v
    /\ res.recv[3].v < 0
    /\ held.k = "sized"

\* C22: VariadicTupleType fails for no types and for a last type that is no
\* array type, and otherwise returns a variadic tuple with the given
\* position types; TupleType of no types returns the empty tuple, with
\* Len() = Min() = Max() = 0 and the empty arrays as its only instances.
C22_TupleFactories ==
    [][/\ res'.op = "VariadicTupleType" =>
             LET types == res'.recv
             IN  IF Len(types) = 0 \/ ~IsArrayType(types[Len(types)])
                 THEN res'.err # "ok" /\ held' = held
                 ELSE /\ res'.err = "ok"
                      /\ held'.k = "tuple"
                      /\ Variadic(held')
                      /\ held'.types = types
       /\ (res'.op = "TupleType" /\ res'.recv = <<>>) =>
             /\ res'.err = "ok"
             /\ held'.k = "tuple"
             /\ LenOf(Cur, held') = 0
             /\ Min(held') = 0
             /\ Max(held') = 0
             /\ \A a \in Arrays : Instance(Cur, held', RefV(a)) <=> arr[a].len = 0
             /\ \A p \in TypedPrims : ~Instance(Cur, held', p)]_vars

C22_Witness ==
    /\ res.op = "VariadicTupleType"
    /\ res.err # "ok"
    /\ Len(res.recv) = 2
    /\ held # NoType

\* ------------------------------------------------------------------ SpecSetType: changing the declared type
\* SetType and Freeze calls on the arrays of SpecTypes.
GivenTypes == {NoType, DefaultArrayType, SizedT, PlainTupleT, IntegerType}

DoSetTypeTo(v, ti) == StepWith("SetType", v, ti, SetType(Cur, v, ti))

NextSetType ==
    \/ \E v \in Arrays, ti \in GivenTypes : DoSetTypeTo(v, ti)
    \/ \E v \in Arrays : DoFreeze(v)

SpecSetType == InitFactories /\ [][NextSetType]_vars

\* C23: SetType(t) on a non-frozen array succeeds and makes t the declared
\* type iff t is nil or an array type the array is an instance of; otherwise
\* it fails and the declared type stays; on a frozen array it always fails
\* and the declared type stays.
C23_SetTypeChecked ==
    [][res'.op = "SetType" =>
          LET v == res'.recv
              t == arg'
          IN  IF ~arr[v].frozen /\ (t = NoType \/ (IsArrayType(t) /\ Instance(Cur, t, RefV(v))))
              THEN res'.err = "ok" /\ arr'[v].typ = t
              ELSE res'.err # "ok" /\ arr'[v].typ = arr[v].typ]_vars

C23_Witness ==
    /\ res.op = "SetType"
    /\ res.err # "ok"
    /\ IsArrayType(arg)
    /\ ~arr[res.recv].frozen
    /\ arr[res.recv].typ # NoType
    /\ arr[res.recv].typ # arg

\* ------------------------------------------------------------------ SpecDerive: arrays derived from arrays
\* The calls start from a heap that nine factory calls have built:
\*   1: WrapSlice(nil, [2, 1, 2])      2: WrapSlice(nil, [string, 1, int])
\*   3: WrapSlice(nil, [2])            4: WrapSlice(nil, ["a"])
\*   5: WrapSlice(nil, [1])            6: WrapSlice(nil, [#3, #4, #5])
\*   7: WrapSlice([2,3]int, [1, 1])    8: WrapSlice({string,int}, ["a", 1])
\*   9: WrapSlice(nil, [m, m]), m the meta type without operand
\* and on which Freeze() may have been called for one array.
MaxDeriveCalls == 1

FewIntsT == newArrayType(IntegerType, 2, 3)

\* every call is applied to the heap that the calls before it have built
BuiltDerive ==
    CHOOSE G \in
      {Collect(After(WrapSlice(G8, NoType, <<MetaType(NoType), MetaType(NoType)>>))) : G8 \in
      {After(WrapSlice(G7, PlainTupleT, <<StrV(1), IntV(1)>>)) : G7 \in
      {After(WrapSlice(G6, FewIntsT, <<IntV(1), IntV(1)>>)) : G6 \in
      {After(WrapSlice(G5, NoType, <<RefV(3), RefV(4), RefV(5)>>)) : G5 \in
      {After(WrapSlice(G4, NoType, <<IntV(1)>>)) : G4 \in
      {After(WrapSlice(G3, NoType, <<StrV(1)>>)) : G3 \in
      {After(WrapSlice(G2, NoType, <<IntV(2)>>)) : G2 \in
      {After(WrapSlice(G1, NoType, <<StringType, IntV(1), IntegerType>>)) : G1 \in
      {After(WrapSlice(Heap(<<>>, <<>>), NoType, <<IntV(2), IntV(1), IntV(2)>>))}}}}}}}}} : TRUE

FrozenFirst == {1, 2, 6, 7, 8}

\* the heaps the calls may start from
BuiltDeriveHeaps ==
    {BuiltDerive} \cup {After(Freeze(G, f)) : G \in {BuiltDerive}, f \in FrozenFirst}

InitDerive ==
    /\ \E G \in BuiltDeriveHeaps : arr = G.arr /\ store = G.store
    /\ res = NoCall
    /\ derived = [i \in 1..9 |-> [op |-> "WrapSlice", recv |-> 0]]
    /\ held = NoType
    /\ arg = NoType
    /\ calls = 0
    /\ lim = MaxDeriveCalls
    /\ running = NoGoroutines
    /\ nodes = NoNodes

Predicates == {Accepting({"int"}), Accepting({})}

DerivePrims == {IntV(1), StrV(1)}

DoSelect(v, predicate) == StepWith("Select", v, predicate, Select(Cur, v, predicate))
DoReject(v, predicate) == StepWith("Reject", v, predicate, Reject(Cur, v, predicate))
DoUnique(v) == Step("Unique", v, Unique(Cur, v))
DoSort(v) == Step("Sort", v, Sort(Cur, v))
DoToMap(v) == Step("ToMap", v, ToMap(Cur, v))
DoWithArg(v, val) == StepWith("With", v, val, With(Cur, v, val))
DoMapToType(v, t, mapper) == StepWith("MapTo", v, t, MapTo(Cur, v, t, mapper))

NextDerive ==
    \/ \E v \in Arrays, predicate \in Predicates : DoSelect(v, predicate)
    \/ \E v \in Arrays, predicate \in Predicates : DoReject(v, predicate)
    \/ \E v \in Arrays : DoUnique(v)
    \/ \E v \in Arrays : DoSort(v)
    \/ \E v \in Arrays : DoToMap(v)
    \/ \E v \in Arrays, frozen \in BOOLEAN : DoCopy(v, frozen)
    \/ \E v \in Arrays, val \in DerivePrims : DoWithArg(v, val)
    \/ \E v \in Arrays, values \in {1, 5} : DoWithAll(v, values)
    \/ \E v \in Arrays, val \in DerivePrims : DoWithValues(v, <<val>>)
    \/ \E v \in Arrays, t \in {SizedT, FewIntsT, PlainTupleT},
          mapper \in {[k |-> "id", v |-> GoNil], [k |-> "const", v |-> IntV(1)]} :
          DoMapToType(v, t, mapper)

SpecDerive == InitDerive /\ [][NextDerive]_vars

\* ------------------------------------------------------------------ properties of SpecDerive
\* the heap after the step
Post == Heap(arr', store')

\* the receiver of the call is after the step what it was before
ReceiverKept ==
    /\ arr'[res'.recv] = arr[res'.recv]
    /\ Elems(Post, res'.recv) = Elems(Cur, res'.recv)

\* the elements of xs that equal no earlier element of xs, in the order of xs
FirstOccurrences(H, xs) ==
    LET keep == {i \in 1..Len(xs) : \A j \in 1..(i - 1) : ~Equals(H, xs[j], xs[i])}
    IN  [n \in 1..Cardinality(keep) |->
            xs[CHOOSE i \in keep : Cardinality({j \in keep : j <= i}) = n]]

\* C24: Unique returns an array with the distinct values (by Equals) of the
\* receiver, each exactly once and in the order of their first occurrence,
\* and leaves the receiver as it was.
C24_UniqueFirstOccurrences ==
    [][res'.op = "Unique" =>
          /\ res'.err = "ok"
          /\ res'.ret.k = "ref"
          /\ Elems(Post, res'.ret.v) = FirstOccurrences(Cur, Elems(Cur, res'.recv))
          /\ ReceiverKept]_vars

\* the ways to arrange n elements
Arrangements(n) == {p \in [1..n -> 1..n] : \A i, j \in 1..n : p[i] = p[j] => i = j}

\* neither of the two is less than the other
Tied(H, a, b) == ~sortLess(H, a, b) /\ ~sortLess(H, b, a)

\* out is xs rearranged
Permutation(xs, out) ==
    /\ Len(out) = Len(xs)
    /\ \E p \in Arrangements(Len(xs)) : \A k \in 1..Len(xs) : out[k] = xs[p[k]]

\* out is xs rearranged so that elements that are tied keep their order
StablePermutation(H, xs, out) ==
    /\ Len(out) = Len(xs)
    /\ \E p \in Arrangements(Len(xs)) :
          /\ \A k \in 1..Len(xs) : out[k] = xs[p[k]]
          /\ \A k, l \in 1..Len(xs) :
                (k < l /\ Tied(H, out[k], out[l])) => p[k] < p[l]

\* no element of out is less than an element before it
Ordered(H, out) == \A k, l \in 1..Len(out) : k < l => ~sortLess(H, out[l], out[k])

\* the comparison orders the elements of xs: being less and being tied are
\* both transitive
Orders(H, xs) ==
    \A i, j, k \in 1..Len(xs) :
       /\ (sortLess(H, xs[i], xs[j]) /\ sortLess(H, xs[j], xs[k])) => sortLess(H, xs[i], xs[k])
       /\ (Tied(H, xs[i], xs[j]) /\ Tied(H, xs[j], xs[k])) => Tied(H, xs[i], xs[k])

\* what Sort keeps of any receiver: the elements, the frozen flag, the
\* declared type, and the receiver as it was
SortKeeps ==
    /\ res'.err = "ok"
    /\ res'.ret.k = "ref"
    /\ Permutation(Elems(Cur, res'.recv), Elems(Post, res'.ret.v))
    /\ arr'[res'.ret.v].frozen = arr[res'.recv].frozen
    /\ arr'[res'.ret.v].typ = arr[res'.recv].typ
    /\ ReceiverKept

\* C25 as stated: Sort returns a permutation of the receiver in which no
\* element is less (by CompareTo, by type identifier when the two do not
\* compare) than an element before it, with equal elements in their
\* original order, the frozen flag and the declared type of the receiver,
\* and leaves the receiver as it was.
C25_SortOrdered ==
    [][res'.op = "Sort" =>
          /\ SortKeeps
          /\ StablePermutation(Cur, Elems(Cur, res'.recv), Elems(Post, res'.ret.v))
          /\ Ordered(Cur, Elems(Post, res'.ret.v))]_vars

\* C25, amended: Sort returns a permutation of the receiver with its frozen
\* flag and declared type and leaves the receiver as it was; when the
\* comparison orders the receiver's elements, no element of the result is
\* less than an element before it and tied elements keep their order.
C25_SortOrderedWhenOrderable ==
    [][res'.op = "Sort" =>
          /\ SortKeeps
          /\ Orders(Cur, Elems(Cur, res'.recv)) =>
                /\ StablePermutation(Cur, Elems(Cur, res'.recv), Elems(Post, res'.ret.v))
                /\ Ordered(Cur, Elems(Post, res'.ret.v))]_vars

C25_Witness ==
    /\ res.op = "Sort"
    /\ res.err = "ok"
    /\ res.ret # RefV(res.recv)
    /\ Elems(Cur, res.ret.v) # Elems(Cur, res.recv)
    /\ Orders(Cur, Elems(Cur, res.recv))
    /\ \E k, l \in 1..arr[res.recv].len :
          /\ k # l
          /\ Get(Cur, res.recv, k - 1) # Get(Cur, res.recv, l - 1)
          /\ Tied(Cur, Get(Cur, res.recv, k - 1), Get(Cur, res.recv, l - 1))

\* the keys ToMap takes from xs: the elements 0, 2, 4, ...
KeysOf(xs) == [i \in 1..((Len(xs) + 1) \div 2) |-> xs[2 * i - 1]]

PairwiseDistinct(H, ks) ==
    \A i, j \in 1..Len(ks) : i # j => ~Equals(H, ks[i], ks[j])

\* C26: ToMap on an array of n elements whose keys are pairwise distinct
\* returns a map of ceil(n/2) entries, entry i with element 2i as key and
\* element 2i+1 as value (nil for the last key of an array of odd length),
\* in the order of the array, and the map is frozen exactly when the array
\* is.
C26_ToMapPairs ==
    [][(res'.op = "ToMap" /\ PairwiseDistinct(Cur, KeysOf(Elems(Cur, res'.recv)))) =>
          LET xs == Elems(Cur, res'.recv)
              m == res'.ret
          IN  /\ res'.err = "ok"
              /\ m.k = "map"
              /\ m.len = (Len(xs) + 1) \div 2
              /\ Len(m.entries) = m.len
              /\ \A i \in 1..Len(m.entries) :
                    /\ m.entries[i].key = xs[2 * i - 1]
                    /\ m.entries[i].value = IF 2 * i <= Len(xs) THEN xs[2 * i] ELSE Nil
              /\ m.frozen = arr[res'.recv].frozen]_vars

Deriving ==
    {"Select", "Reject", "Unique", "Sort", "Copy", "With", "WithAll", "WithValues", "MapTo"}

\* C28: an array that Select, Reject, Unique, Sort, Copy, With, WithAll,
\* WithValues or MapTo returns and that has a declared type T is an
\* instance of T.
C28_DerivedInstanceOfType ==
    [][(/\ res'.op \in Deriving
        /\ res'.err = "ok"
        /\ res'.ret.k = "ref"
        /\ arr'[res'.ret.v].typ # NoType) =>
          Instance(Post, arr'[res'.ret.v].typ, res'.ret)]_vars

\* ------------------------------------------------------------------ SpecConcurrent: With from two goroutines
\* Two goroutines call With on frozen arrays, with nothing that orders them.
\* A call is three steps: the type check; append(v.slice, val), which writes
\* into the backing array of v when it has spare capacity; and the
\* allocation of the result.  The calls start from
\*   1: ArrayWithCapacity(2, nil), Add(1), Freeze()     2: Values(1)
MaxGoCalls == 2

Goroutines == {1, 2}

NoSlice == [st |-> 0, off |-> 0, len |-> 0]

Idle == [pc |-> "idle", recv |-> 0, val |-> GoNil, sl |-> NoSlice, ret |-> GoNil]

GoPrims == {IntV(1), IntV(2)}

BuiltShared ==
    LET a1 == ArrayWithCapacity(Heap(<<>>, <<>>), 2, NoType)
        b1 == Add(After(a1), 1, IntV(1))
        c1 == Freeze(After(b1), 1)
        a2 == Values(After(c1), <<IntV(1)>>)
    IN  After(a2)

InitConcurrent ==
    /\ arr = BuiltShared.arr
    /\ store = BuiltShared.store
    /\ res = NoCall
    /\ derived = <<[op |-> "ArrayWithCapacity", recv |-> 0], [op |-> "Values", recv |-> 0]>>
    /\ held = NoType
    /\ arg = NoType
    /\ calls = 0
    /\ lim = MaxGoCalls
    /\ running = [g \in Goroutines |-> Idle]
    /\ nodes = NoNodes

\* val := Value(vi); v.assertType(val, len(v.slice))
WithBegin(g, v, val) ==
    /\ calls < lim
    /\ running[g].pc \in {"idle", "done"}
    /\ arr[v].frozen
    /\ assertType(Cur, v, val, arr[v].len) = "ok"
    /\ running' = [running EXCEPT ![g] = [Idle EXCEPT !.pc = "append", !.recv = v, !.val = val]]
    /\ res' = [NoCall EXCEPT !.op = "With", !.recv = v]
    /\ calls' = calls + 1
    /\ UNCHANGED <<arr, store, derived, held, arg, lim, nodes>>

\* the slot of the backing array that a one-element append onto sl wrote
Written(sl) == [st |-> sl.st, at |-> sl.off + sl.len]

\* append(v.slice, val).  A write into a slot that another goroutine wrote
\* in a call that has not returned is a data race: the slot ends up with
\* either value.
WithAppend(g) ==
    /\ running[g].pc = "append"
    /\ LET me == running[g]
           r == GoAppend(store, SliceOf(Cur, me.recv), <<me.val>>)
           racing == {h \in Goroutines \ {g} :
                         running[h].pc = "return" /\ Written(running[h].sl) = Written(r.sl)}
       IN  /\ \E w \in {me.val} \cup {running[h].val : h \in racing} :
                 store' = [r.store EXCEPT ![r.sl.st][r.sl.off + r.sl.len] = w]
           /\ running' = [running EXCEPT ![g].pc = "return", ![g].sl = r.sl]
    /\ UNCHANGED <<arr, res, derived, held, arg, calls, lim, nodes>>

\* return &array{slice: ..., typ: v.typ, frozen: v.frozen}
WithReturn(g) ==
    /\ running[g].pc = "return"
    /\ LET me == running[g]
       IN  /\ arr' = Append(arr, Obj(me.sl.st, me.sl.off, me.sl.len,
                                    arr[me.recv].typ, arr[me.recv].frozen))
           /\ running' = [running EXCEPT ![g].pc = "done", ![g].ret = RefV(Len(arr) + 1)]
           /\ res' = [NoCall EXCEPT !.op = "With", !.recv = me.recv, !.ret = RefV(Len(arr) + 1)]
           /\ derived' = Append(derived, [op |-> "With", recv |-> me.recv])
    /\ UNCHANGED <<store, held, arg, calls, lim, nodes>>

NextConcurrent ==
    \/ \E g \in Goroutines, v \in Arrays, val \in GoPrims : WithBegin(g, v, val)
    \/ \E g \in Goroutines : WithAppend(g)
    \/ \E g \in Goroutines : WithReturn(g)

SpecConcurrent == InitConcurrent /\ [][NextConcurrent]_vars

\* ------------------------------------------------------------------ properties of SpecConcurrent
\* C27: the array a goroutine got from With on a frozen array holds the
\* receiver's elements followed by the goroutine's own argument, whatever
\* another goroutine calling With on the same array does meanwhile.
C27_WithPerGoroutine ==
    \A g \in DOMAIN running :
       running[g].pc = "done" =>
          Elems(Cur, running[g].ret.v) = Append(Elems(Cur, running[g].recv), running[g].val)

\* ------------------------------------------------------------------ SpecRemove: removing from arrays with a declared type
\* The calls start from a heap that six factory calls have built:
\*   1: WrapSlice([1,2]int, [1])           2: WrapSlice([1,2]int, [1, 2])
\*   3: WrapSlice({string,int}, ["a", 1])  4: WrapSlice({string,...int}, ["a", 1, 1])
\*   5: ArrayWithCapacity(2, [1,2]int)     6: WrapSlice(nil, [1])
\* The caller keeps the argument of its call: a position, as an integer, or
\* a value.
MaxRemoveCalls == 2

BuiltTyped ==
    LET a1 == WrapSlice(Heap(<<>>, <<>>), SizedT, <<IntV(1)>>)
        a2 == WrapSlice(After(a1), SizedT, <<IntV(1), IntV(2)>>)
        a3 == WrapSlice(After(a2), PlainTupleT, <<StrV(1), IntV(1)>>)
        a4 == WrapSlice(After(a3), VariadicTupleT, <<StrV(1), IntV(1), IntV(1)>>)
        a5 == ArrayWithCapacity(After(a4), 2, SizedT)
        a6 == WrapSlice(After(a5), NoType, <<IntV(1)>>)
    IN  Collect(After(a6))

InitRemove ==
    /\ arr = BuiltTyped.arr
    /\ store = BuiltTyped.store
    /\ res = NoCall
    /\ derived = [i \in 1..6 |->
                    [op |-> IF i = 5 THEN "ArrayWithCapacity" ELSE "WrapSlice", recv |-> 0]]
    /\ held = NoType
    /\ arg = NoType
    /\ calls = 0
    /\ lim = MaxRemoveCalls
    /\ running = NoGoroutines
    /\ nodes = NoNodes

RemovePrims == {IntV(1), IntV(2), StrV(1)}

DoRemoveAt(v, pos) == StepWith("Remove", v, IntV(pos), Remove(Cur, v, pos))
DoRemoveThe(v, val) == StepWith("RemoveValue", v, val, RemoveValue(Cur, v, val))

NextRemove ==
    \/ \E v \in Arrays : \E pos \in (0 - 1)..arr[v].len : DoRemoveAt(v, pos)
    \/ \E v \in Arrays, val \in RemovePrims : DoRemoveThe(v, val)
    \/ \E v \in Arrays : DoPop(v)
    \/ \E v \in Arrays : DoFreeze(v)

SpecRemove == InitRemove /\ [][NextRemove]_vars

\* ------------------------------------------------------------------ properties of SpecRemove
Removals == {"Remove", "RemoveValue", "Pop"}

\* the position (counted from 1) the call is to remove from xs, 0 when
\* there is none: the given position, the first position of the given value,
\* the last position
Removing(op, a, xs) ==
    CASE op = "Remove" -> IF a.v >= 0 /\ a.v < Len(xs) THEN a.v + 1 ELSE 0
      [] op = "RemoveValue" ->
            LET hits == {i \in 1..Len(xs) : Equals(Cur, a, xs[i])}
            IN  IF hits = {} THEN 0 ELSE CHOOSE i \in hits : \A j \in hits : i <= j
      [] op = "Pop" -> Len(xs)

Without(xs, p) == [i \in 1..(Len(xs) - 1) |-> IF i < p THEN xs[i] ELSE xs[i + 1]]

\* C29: on an array that is not frozen and has a declared type T, Remove,
\* RemoveValue and Pop fail with IllegalSize and leave the array as it was
\* exactly when there is an element to remove and removing it would make
\* the array shorter than T.Min(); otherwise they remove that element, or,
\* when there is none (position out of range, value absent, empty array),
\* change nothing and report that nothing was removed.
C29_RemovalKeepsMin ==
    [][(/\ res'.op \in Removals
        /\ ~arr[res'.recv].frozen
        /\ arr[res'.recv].typ # NoType) =>
          LET v == res'.recv
              xs == Elems(Cur, v)
              p == Removing(res'.op, arg', xs)
          IN  IF p > 0 /\ Len(xs) - 1 < Min(arr[v].typ)
              THEN /\ res'.err = "IllegalSize"
                   /\ ReceiverKept
              ELSE IF p > 0
              THEN /\ res'.err = "ok"
                   /\ Elems(Post, v) = Without(xs, p)
                   /\ res'.op = "Remove" => res'.ret = xs[p]
                   /\ res'.op = "RemoveValue" => res'.flag
                   /\ res'.op = "Pop" => (res'.ret = xs[p] /\ res'.flag)
              ELSE /\ res'.err = "ok"
                   /\ ReceiverKept
                   /\ res'.ret = GoNil
                   /\ ~res'.flag]_vars

C29_Witness ==
    /\ res.op \in Removals
    /\ res.err = "IllegalSize"
    /\ arr[res.recv].typ # NoType
    /\ arr[res.recv].len = Min(arr[res.recv].typ)
    /\ arr[res.recv].len < BuiltTyped.arr[res.recv].len

\* ------------------------------------------------------------------ SpecFreeze: freezing graphs of arrays
\* The calls start from a heap that these calls have built:
\*   1: a := WrapSlice(nil, [1]); a.Add(a)              an array holding itself
\*   2: b := WrapSlice(nil, []);  3: c := WrapSlice(nil, [b]); b.Add(c)
\*   4: m := WrapSlice(nil, [1])  5: e := Values()      6: h := e.With(m)
\*   7: r := WrapSlice(nil, [h, a])
MaxFreezeCalls == 2

\* every call is applied to the heap that the calls before it have built
BuiltGraph ==
    CHOOSE G \in
      {Collect(After(WrapSlice(G8, NoType, <<RefV(6), RefV(1)>>))) : G8 \in
      {After(With(G7, 5, RefV(4))) : G7 \in
      {After(Values(G6, <<>>)) : G6 \in
      {After(WrapSlice(G5, NoType, <<IntV(1)>>)) : G5 \in
      {After(Add(G4, 2, RefV(3))) : G4 \in
      {After(WrapSlice(G3, NoType, <<RefV(2)>>)) : G3 \in
      {After(WrapSlice(G2, NoType, <<>>)) : G2 \in
      {After(Add(G1, 1, RefV(1))) : G1 \in
      {After(WrapSlice(Heap(<<>>, <<>>), NoType, <<IntV(1)>>))}}}}}}}}} : TRUE

InitFreeze ==
    /\ arr = BuiltGraph.arr
    /\ store = BuiltGraph.store
    /\ res = NoCall
    /\ derived = [i \in 1..7 |->
                    [op |-> IF i = 5 THEN "Values" ELSE IF i = 6 THEN "With" ELSE "WrapSlice",
                     recv |-> IF i = 6 THEN 5 ELSE 0]]
    /\ held = NoType
    /\ arg = NoType
    /\ calls = 0
    /\ lim = MaxFreezeCalls
    /\ running = NoGoroutines
    /\ nodes = NoNodes

NextFreeze ==
    \/ \E v \in Arrays : DoFreeze(v)
    \/ \E v \in Arrays, val \in Refs : DoAdd(v, val)

SpecFreeze == InitFreeze /\ [][NextFreeze]_vars

\* ------------------------------------------------------------------ properties of SpecFreeze
\* the arrays that an array of the set S holds
HeldBy(H, S) ==
    {b \in 1..Len(H.arr) :
        \E a \in S : \E i \in 1..H.arr[a].len : Get(H, a, i - 1) = RefV(b)}

\* v and the arrays reachable from v
RECURSIVE Reach(_, _)
Reach(H, S) == IF HeldBy(H, S) \subseteq S THEN S ELSE Reach(H, S \cup HeldBy(H, S))

Reachable(H, v) == Reach(H, {v})

\* C30: Freeze returns, whatever the graph of arrays (arrays that hold
\* themselves included); on return the receiver and every array reachable
\* from it are frozen; on a frozen receiver it changes nothing.
C30_FreezeReachesAll ==
    [][res'.op = "Freeze" =>
          /\ res'.err = "ok"
          /\ \A a \in Reachable(Post, res'.recv) : arr'[a].frozen
          /\ arr[res'.recv].frozen => (arr' = arr /\ store' = store)]_vars

\* ------------------------------------------------------------------ SpecCopy: copying graphs of arrays
\* The calls start from the heap of SpecFreeze: array 1 holds itself, arrays
\* 2 and 3 hold each other, array 7 holds the frozen array 6 and array 1.
MaxCopyCalls == 2

InitCopy ==
    /\ arr = BuiltGraph.arr
    /\ store = BuiltGraph.store
    /\ res = NoCall
    /\ derived = [i \in 1..7 |->
                    [op |-> IF i = 5 THEN "Values" ELSE IF i = 6 THEN "With" ELSE "WrapSlice",
                     recv |-> IF i = 6 THEN 5 ELSE 0]]
    /\ held = NoType
    /\ arg = NoType
    /\ calls = 0
    /\ lim = MaxCopyCalls
    /\ running = NoGoroutines
    /\ nodes = NoNodes

NextCopy ==
    \/ \E v \in Arrays : DoFrozenCopy(v)
    \/ \E v \in Arrays, frozen \in BOOLEAN : DoCopy(v, frozen)
    \/ \E v \in Arrays, val \in Refs : DoAdd(v, val)

SpecCopy == InitCopy /\ [][NextCopy]_vars

\* ------------------------------------------------------------------ properties of SpecCopy
\* C31: Copy(true) and FrozenCopy return on every array that is not frozen,
\* arrays that hold themselves directly or through other arrays included.
C31_FrozenCopyReturns ==
    [][(res'.op \in {"Copy", "FrozenCopy"} /\ ~arr[res'.recv].frozen)
          => res'.err = "ok"]_vars

\* ------------------------------------------------------------------ SpecSizes: the sizes of array types
\* The caller holds an array type and asks it for its bounds, and whether it
\* is assignable from another array type.  The arrays of the exact types are
\* the ones of SpecTypes.
MaxSizeSteps == 1

\* the array types that end a variadic tuple
TailTypes ==
    {DefaultArrayType, IntegerArrayT, StringArrayT, SizedT,
     newArrayType(IntegerType, 0, MaxInt64 - 1),
     newArrayType(IntegerType, MaxInt64 - 1, MaxInt64 - 1)}

Prefixes == {<<>>, <<StringType>>, <<IntegerType, IntegerType>>, <<StringType, IntegerType>>}

SizedTuples ==
    {newTupleType(p, FALSE) : p \in Prefixes}
        \cup {VariadicTupleType(Append(p, a)).t : p \in Prefixes, a \in TailTypes}

SizedArrays ==
    SizedTypes \cup TailTypes
        \cup {newArrayType(IntegerType, 0, 0), newArrayType(IntegerType, 2, 2),
              newArrayType(StringType, 1, 3), newArrayType(IntegerType, 2, 3)}

SizedArrayTypes == SizedArrays \cup SizedTuples \cup ExactTypes

InitSizes ==
    /\ arr = BuiltTypes.arr
    /\ store = BuiltTypes.store
    /\ res = NoCall
    /\ derived = BuiltTypesBy
    /\ held \in SizedArrayTypes
    /\ arg \in SizedArrayTypes
    /\ calls = 0
    /\ lim = MaxSizeSteps
    /\ running = NoGoroutines
    /\ nodes = NoNodes

\* a call on held that changes nothing and answers a number
Measure(op, n) ==
    /\ calls < lim
    /\ res' = [NoCall EXCEPT !.op = op, !.recv = held, !.ret = IntV(n)]
    /\ calls' = calls + 1
    /\ UNCHANGED <<arr, store, derived, held, arg, lim, running, nodes>>

\* held.Min()
DoMin == Measure("Min", MinOf(Cur, held))

\* held.Max()
DoMax == Measure("Max", MaxOf(Cur, held))

\* held.Unbounded()
DoUnbounded == Query("Unbounded", Unbounded(held))

NextSizes ==
    \/ DoMin
    \/ DoMax
    \/ DoUnbounded
    \/ DoAssignable

SpecSizes == InitSizes /\ [][NextSizes]_vars

\* ------------------------------------------------------------------ properties of SpecSizes
\* the number of positions of tuple t before its variadic tail
Fixed(t) == IF t.variadic THEN Len(t.types) - 1 ELSE Len(t.types)

\* C32: a tuple type T is assignable from a sized array type S iff
\* T.Min() <= S.Min(), S.Max() <= T.Max(), and every type of a fixed position
\* of T, and the element type of T's variadic tail when T has one, is
\* assignable from S's element type; T is never assignable from the default
\* array type; T is assignable from an exact array type iff the array of
\* that type is an instance of T.
C32_TupleAssignableFromArray ==
    [][(res'.op = "Assignable" /\ held.k = "tuple") =>
          /\ arg.k = "sized" =>
                (res'.flag <=>
                    /\ Min(held) <= arg.min
                    /\ arg.max <= Max(held)
                    /\ \A i \in 1..Fixed(held) :
                          Assignable(Cur, held.types[i], arg.elementType)
                    /\ held.variadic =>
                          Assignable(Cur, ElementType(held.types[Len(held.types)]),
                                     arg.elementType))
          /\ arg.k = "array" => ~res'.flag
          /\ arg.k = "exact" => (res'.flag <=> Instance(Cur, held, RefV(arg.id)))]_vars

C32_Witness ==
    /\ res.op = "Assignable"
    /\ res.flag
    /\ res.recv.k = "tuple"
    /\ res.recv.variadic
    /\ Fixed(res.recv) > 0
    /\ arg.k = "sized"

\* the array type that ends the variadic tuple t
TailOf(t) == t.types[Len(t.types)]

\* C33: for every tuple type 0 <= Min() <= Max(); for a variadic tuple with
\* n fixed positions and tail A, Min() is the number n + A.Min() and Max()
\* is the number n + A.Max() when A.Max() is less than the maximum integer,
\* and the maximum integer otherwise: no sum wraps around or is negative.
C33_TupleBounds ==
    [][(res'.op \in {"Min", "Max"} /\ held.k = "tuple") =>
          /\ 0 <= Min(held)
          /\ Min(held) <= Max(held)
          /\ (res'.op = "Min" /\ held.variadic) =>
                res'.ret.v = Fixed(held) + Min(TailOf(held))
          /\ (res'.op = "Max" /\ held.variadic) =>
                res'.ret.v = IF Max(TailOf(held)) < MaxInt64
                             THEN Fixed(held) + Max(TailOf(held))
                             ELSE MaxInt64]_vars

\* C34: for every array type (default, sized, tuple, exact) Unbounded() is
\* true iff the type has no size constraint: Min() is 0 and Max() is the
\* maximum integer.
C34_UnboundedIffNoConstraint ==
    [][res'.op = "Unbounded" =>
          (res'.flag <=> (MinOf(Cur, held) = 0 /\ MaxOf(Cur, held) = MaxInt64))]_vars

\* ------------------------------------------------------------------ SpecEntries: maps made from arrays
\* The calls start from a map m of three entries, made by
\*   m.Put(1, "a"); m.Put(2, "b"); m.Put(5, "c")      (four buckets: 1 and 5 share one)
\* whose nodes are 1, 2, 3, and from arrays that WrapSlice has built:
\*   1: [1, "a"]   2: [2, "b"]   3: [1, "b"]   4: [1, 2, 1]
\*   5: the entries of m, in order       6: the entries 2 and 1 of m
\*   7: [#1, #2]   8: [#1, #3]   9: [entry 2 of m, #4]   10: [#1, 1]
\*   11: [1, "a", 2, "b"]          14: Values(#1, #2), frozen, holding the
\*   frozen copies 12 and 13 of arrays 1 and 2
\* The caller holds m.
MaxEntryCalls == 2

BuiltMap ==
    CHOOSE M \in
      {putNew(M2.N, M2.m, IntV(5), StrV(3)) : M2 \in
      {putNew(M1.N, M1.m, IntV(2), StrV(2)) : M1 \in
      {putNew(NoNodes, hashMap(makeTable(4), 0, FALSE), IntV(1), StrV(1))}}} : TRUE

BuiltEntries ==
    CHOOSE G \in
      {Collect(After(Values(G12, <<RefV(1), RefV(2)>>))) : G12 \in
      {After(WrapSlice(G11, NoType, <<IntV(1), StrV(1), IntV(2), StrV(2)>>)) : G11 \in
      {After(WrapSlice(G10, NoType, <<RefV(1), IntV(1)>>)) : G10 \in
      {After(WrapSlice(G9, NoType, <<EntryV(2), RefV(4)>>)) : G9 \in
      {After(WrapSlice(G8, NoType, <<RefV(1), RefV(3)>>)) : G8 \in
      {After(WrapSlice(G7, NoType, <<RefV(1), RefV(2)>>)) : G7 \in
      {After(WrapSlice(G6, NoType, <<EntryV(2), EntryV(1)>>)) : G6 \in
      {After(WrapSlice(G5, NoType, <<EntryV(1), EntryV(2), EntryV(3)>>)) : G5 \in
      {After(WrapSlice(G4, NoType, <<IntV(1), IntV(2), IntV(1)>>)) : G4 \in
      {After(WrapSlice(G3, NoType, <<IntV(1), StrV(2)>>)) : G3 \in
      {After(WrapSlice(G2, NoType, <<IntV(2), StrV(2)>>)) : G2 \in
      {After(WrapSlice(Heap(<<>>, <<>>), NoType, <<IntV(1), StrV(1)>>))}}}}}}}}}}}} : TRUE

InitEntries ==
    /\ arr = BuiltEntries.arr
    /\ store = BuiltEntries.store
    /\ res = NoCall
    /\ derived = [i \in 1..Len(BuiltEntries.arr) |->
                    [op |-> IF i <= 11 THEN "WrapSlice" ELSE IF i = 14 THEN "Values" ELSE "nested",
                     recv |-> 0]]
    /\ held = BuiltMap.m
    /\ arg = NoType
    /\ calls = 0
    /\ lim = MaxEntryCalls
    /\ running = NoGoroutines
    /\ nodes = BuiltMap.N

\* v.ToMapFromEntries()
DoToMapFromEntries(v) ==
    /\ calls < lim
    /\ LET r == ToMapFromEntries(Cur, nodes, v)
       IN  /\ nodes' = r.N
           /\ res' = [op |-> "ToMapFromEntries", recv |-> v, err |-> r.err,
                      ret |-> r.ret, flag |-> r.flag]
    /\ calls' = calls + 1
    /\ UNCHANGED <<arr, store, derived, held, arg, lim, running>>

\* the arrays that hold no entry of a map
Plain == {a \in Arrays : \A i \in 1..arr[a].len : Get(Cur, a, i - 1).k # "entry"}

NextEntries ==
    \/ \E v \in Arrays : DoToMapFromEntries(v)
    \/ \E v \in Plain : DoToMap(v)
    \/ \E v \in Arrays \ Plain, val \in {EntryV(1), EntryV(3), RefV(3)} : DoAdd(v, val)

SpecEntries == InitEntries /\ [][NextEntries]_vars

\* ------------------------------------------------------------------ properties of SpecEntries
\* the entries of a map in iteration order: from first along next; fuel
\* bounds the walk, which does not end when the links form a cycle
RECURSIVE walk(_, _, _)
walk(N, link, fuel) ==
    IF link = GoNil \/ fuel = 0 THEN <<>>
    ELSE <<[key |-> N[link.v].key, value |-> N[link.v].value]>>
            \o walk(N, N[link.v].next, fuel - 1)

EntriesOf(N, m) ==
    IF "entries" \in DOMAIN m THEN m.entries ELSE walk(N, m.first, Len(N) + 1)

KeysIn(es) == [i \in 1..Len(es) |-> es[i].key]

\* the number of keys of ks that no earlier key of ks equals
Distinct(H, ks) ==
    Cardinality({i \in 1..Len(ks) : \A j \in 1..(i - 1) : ~Equals(H, ks[j], ks[i])})

\* C35: the map that ToMap or ToMapFromEntries returns holds at most one
\* entry per key (by Equals), and its Len() is the number of distinct keys,
\* also when the array repeats a key.
C35_OneEntryPerKey ==
    [][(res'.op \in {"ToMap", "ToMapFromEntries"} /\ res'.err = "ok" /\ res'.ret.k = "map") =>
          LET ks == KeysIn(EntriesOf(nodes', res'.ret))
          IN  /\ PairwiseDistinct(Post, ks)
              /\ res'.ret.len = Distinct(Post, ks)]_vars

\* every element is a map entry or an array of exactly two elements
AllEntries(H, v) ==
    \A i \in 1..H.arr[v].len :
        LET e == Get(H, v, i - 1)
        IN  e.k = "entry" \/ (e.k = "ref" /\ H.arr[IF e.k = "ref" THEN e.v ELSE 1].len = 2)

\* C36: ToMapFromEntries returns a map and true when every element is a map
\* entry or an array of exactly two elements, and (nil, false) otherwise;
\* either way every node there was before the call, and so every map made
\* of such nodes, keeps its key, its value and its links (hashNext, prev,
\* next).
C36_ToMapFromEntriesFrame ==
    [][res'.op = "ToMapFromEntries" =>
          /\ res'.flag <=> AllEntries(Cur, res'.recv)
          /\ res'.flag => res'.ret.k = "map"
          /\ ~res'.flag => res'.ret = GoNil
          /\ \A n \in 1..Len(nodes) : nodes'[n] = nodes[n]]_vars

\* ------------------------------------------------------------------ SpecContains: arrays compared by their values
\* The calls start from arrays that WrapSlice has built:
\*   1: []   2: [1]   3: [2]   4: [1, 2]   5: [2, 1]   6: [1, 1]
\*   7: [1, 2, 1]   8: [#2]   9: [1, #3]   10: [#3, 1, #2]
MaxContainCalls == 2

BuiltLists ==
    CHOOSE G \in
      {Collect(After(WrapSlice(G9, NoType, <<RefV(3), IntV(1), RefV(2)>>))) : G9 \in
      {After(WrapSlice(G8, NoType, <<IntV(1), RefV(3)>>)) : G8 \in
      {After(WrapSlice(G7, NoType, <<RefV(2)>>)) : G7 \in
      {After(WrapSlice(G6, NoType, <<IntV(1), IntV(2), IntV(1)>>)) : G6 \in
      {After(WrapSlice(G5, NoType, <<IntV(1), IntV(1)>>)) : G5 \in
      {After(WrapSlice(G4, NoType, <<IntV(2), IntV(1)>>)) : G4 \in
      {After(WrapSlice(G3, NoType, <<IntV(1), IntV(2)>>)) : G3 \in
      {After(WrapSlice(G2, NoType, <<IntV(2)>>)) : G2 \in
      {After(WrapSlice(G1, NoType, <<IntV(1)>>)) : G1 \in
      {After(WrapSlice(Heap(<<>>, <<>>), NoType, <<>>))}}}}}}}}}} : TRUE

InitContains ==
    /\ arr = BuiltLists.arr
    /\ store = BuiltLists.store
    /\ res = NoCall
    /\ derived = [i \in 1..Len(BuiltLists.arr) |-> [op |-> "WrapSlice", recv |-> 0]]
    /\ held = NoType
    /\ arg = NoType
    /\ calls = 0
    /\ lim = MaxContainCalls
    /\ running = NoGoroutines
    /\ nodes = NoNodes

\* v.ContainsAll(other)
DoContainsAll(v, other) ==
    StepWith("ContainsAll", v, RefV(other), Out(Cur, "ok", GoNil, ContainsAll(Cur, v, other)))

\* v.SameValues(other)
DoSameValues(v, other) ==
    StepWith("SameValues", v, RefV(other), Out(Cur, "ok", GoNil, SameValues(Cur, v, other)))

NextContains ==
    \/ \E v \in Arrays, other \in Arrays : DoContainsAll(v, other)
    \/ \E v \in Arrays, other \in Arrays : DoSameValues(v, other)

SpecContains == InitContains /\ [][NextContains]_vars

\* ------------------------------------------------------------------ properties of SpecContains
\* the number of elements of xs equal to x
Count(H, xs, x) == Cardinality({j \in 1..Len(xs) : Equals(H, xs[j], x)})

\* every value of ys can be matched to an equal element of xs of its own:
\* xs holds each value at least as often as ys does
Matched(H, xs, ys) == \A i \in 1..Len(ys) : Count(H, ys, ys[i]) <= Count(H, xs, ys[i])

\* C37: a.ContainsAll(other) is true iff every value of other can be matched
\* to a distinct equal element of a, whether a is longer than other or as
\* long; a.SameValues(other) is true iff the two have the same length and
\* the same values up to order.
C37_ContainsAllMatches ==
    [][/\ res'.op = "ContainsAll" =>
             (res'.flag <=> Matched(Cur, Elems(Cur, res'.recv), Elems(Cur, arg'.v)))
       /\ res'.op = "SameValues" =>
             (res'.flag <=> /\ arr[res'.recv].len = arr[arg'.v].len
                            /\ Matched(Cur, Elems(Cur, res'.recv), Elems(Cur, arg'.v)))]_vars

====
